---- MODULE Spec2Model ----
(***************************************************************************)
(* A model of the SQL query optimizer: the engine's pipeline (semantic     *)
(* validation, query rewriting, AST-to-SQL emission, plan generation) as   *)
(* one query at a time walks through cli.cpp's main loop, and the          *)
(* join-order dynamic programme of sqlopt.cpp.                             *)
(*                                                                         *)
(* Texts (predicates, select expressions, names, emitted SQL) are strings; *)
(* the searches the code performs on them (std::string::find, the two      *)
(* std::regex patterns) are computed character by character.               *)
(***************************************************************************)
EXTENDS Integers, Sequences, FiniteSets, TLC

\* Row count of the largest table of the catalog
MaxRows == 300

(***************************************************************************)
(* Strings                                                                 *)
(***************************************************************************)

\* The characters \w matches, in ASCII order (position = rank in the order).
WordChars == "0123456789ABCDEFGHIJKLMNOPQRSTUVWXYZ_abcdefghijklmnopqrstuvwxyz"

Char(s, i) == SubSeq(s, i, i)

\* Rank of a one-character string among the word characters, 0 for any other.
Code(c) ==
  IF \E i \in 1..Len(WordChars) : Char(WordChars, i) = c
  THEN CHOOSE i \in 1..Len(WordChars) : Char(WordChars, i) = c
  ELSE 0

IsWord(c) == Code(c) > 0

IsSpace(c) == c = " "

\* std::string::find(p) != npos
Find(s, p) ==
  \E i \in 1..(Len(s) - Len(p) + 1) : SubSeq(s, i, i + Len(p) - 1) = p

\* std::string::find(p), 1-based; 0 for npos
FindPos(s, p) ==
  IF Find(s, p)
  THEN CHOOSE i \in 1..(Len(s) - Len(p) + 1) :
         /\ SubSeq(s, i, i + Len(p) - 1) = p
         /\ \A j \in 1..(i - 1) : SubSeq(s, j, j + Len(p) - 1) # p
  ELSE 0

\* std::string operator< : lexicographic on the characters
RECURSIVE StrLessFrom(_, _, _)
StrLessFrom(a, b, i) ==
  IF i > Len(b) THEN FALSE
  ELSE IF i > Len(a) THEN TRUE
  ELSE IF Code(Char(a, i)) < Code(Char(b, i)) THEN TRUE
  ELSE IF Code(Char(a, i)) > Code(Char(b, i)) THEN FALSE
  ELSE StrLessFrom(a, b, i + 1)

StrLess(a, b) == StrLessFrom(a, b, 1)

\* Last index of the maximal run of word characters starting at i (i-1: none).
RECURSIVE WordEnd(_, _)
WordEnd(s, i) ==
  IF i <= Len(s) /\ IsWord(Char(s, i)) THEN WordEnd(s, i + 1) ELSE i - 1

\* Last index of the maximal run of white space starting at i (i-1: none).
RECURSIVE SpaceEnd(_, _)
SpaceEnd(s, i) ==
  IF i <= Len(s) /\ IsSpace(Char(s, i)) THEN SpaceEnd(s, i + 1) ELSE i - 1

(***************************************************************************)
(* The patterns of std::regex used by the rewriter.  A pattern is a        *)
(* sequence of elements: a literal, \w+ (captured), \s+ or \s*.  Every     *)
(* repetition is followed by an element of a disjoint character class, so  *)
(* the greedy match from a start position is the only one.                 *)
(***************************************************************************)
Lit(v) == [t |-> "lit", v |-> v]
W1 == [t |-> "w", v |-> ""]
S1 == [t |-> "s1", v |-> ""]
S0 == [t |-> "s0", v |-> ""]

NoMatch == [ok |-> FALSE, caps |-> <<>>, stop |-> 0]

\* Match elements k.. of pat against s from position i; caps: captures so far.
RECURSIVE MatchFrom(_, _, _, _, _)
MatchFrom(s, i, pat, k, caps) ==
  IF k > Len(pat) THEN [ok |-> TRUE, caps |-> caps, stop |-> i]
  ELSE LET e == pat[k] IN
    CASE e.t = "lit" ->
           IF i + Len(e.v) - 1 <= Len(s) /\ SubSeq(s, i, i + Len(e.v) - 1) = e.v
           THEN MatchFrom(s, i + Len(e.v), pat, k + 1, caps)
           ELSE NoMatch
      [] e.t = "w" ->
           LET j == WordEnd(s, i) IN
           IF j >= i
           THEN MatchFrom(s, j + 1, pat, k + 1, Append(caps, SubSeq(s, i, j)))
           ELSE NoMatch
      [] e.t = "s1" ->
           LET j == SpaceEnd(s, i) IN
           IF j >= i THEN MatchFrom(s, j + 1, pat, k + 1, caps) ELSE NoMatch
      [] OTHER ->
           MatchFrom(s, SpaceEnd(s, i) + 1, pat, k + 1, caps)

\* std::regex_search: the match at the leftmost position that has one.
RegexSearch(s, pat) ==
  LET starts == {i \in 1..Len(s) : MatchFrom(s, i, pat, 1, <<>>).ok} IN
  IF starts = {} THEN NoMatch
  ELSE MatchFrom(s, CHOOSE i \in starts : \A j \in starts : i <= j, pat, 1, <<>>)

\* query_rewriter.cpp:146  (\w+)\.(\w+)\s*=\s*(\w+)\.(\w+)
table_pattern == <<W1, Lit("."), W1, S0, Lit("="), S0, W1, Lit("."), W1>>

\* query_rewriter.cpp:292
\* \(SELECT\s+(\w+)\s+FROM\s+(\w+)\s+(\w+)\s+WHERE\s+(\w+)\.(\w+)\s*=\s*(\w+)\.(\w+)\)
generic_pattern ==
  <<Lit("(SELECT"), S1, W1, S1, Lit("FROM"), S1, W1, S1, W1, S1, Lit("WHERE"), S1,
    W1, Lit("."), W1, S0, Lit("="), S0, W1, Lit("."), W1, Lit(")")>>

(***************************************************************************)
(* The parsed query (ast.h) and sequence helpers                           *)
(***************************************************************************)
Range(f) == {f[i] : i \in DOMAIN f}

\* ast.h:10 enum class JoinType
JoinTypes ==
  {"INNER", "LEFT", "RIGHT", "FULL", "NATURAL", "LEFT_ANTI", "RIGHT_ANTI",
   "FULL_OUTER_ANTI"}

\* ast.h:16 struct TableRef
TableRef(name, alias) == [name |-> name, alias |-> alias, pushedFilters |-> <<>>]

\* ast.h:18 struct JoinClause
JoinClause(type, table, on_conds) ==
  [type |-> type, table |-> table, on_conds |-> on_conds]

\* ast.h:26 struct SelectItem
SelectItem(expr, alias) == [expr |-> expr, alias |-> alias]

\* The alias a table is referred to by: alias.empty() ? name : alias
EffAlias(t) == IF t.alias = "" THEN t.name ELSE t.alias

\* The concatenation of a list of lists
RECURSIVE Flatten(_)
Flatten(ss) == IF ss = <<>> THEN <<>> ELSE Head(ss) \o Flatten(Tail(ss))

\* Every ON condition of every join of a join list
AllOnConds(joins) == UNION {Range(joins[j].on_conds) : j \in DOMAIN joins}

(***************************************************************************)
(* Lexer (lexer.cpp)                                                       *)
(***************************************************************************)
Digits == "0123456789"
UpperChars == "ABCDEFGHIJKLMNOPQRSTUVWXYZ"
LowerChars == "abcdefghijklmnopqrstuvwxyz"

IsDigit(c) == Find(Digits, c)

\* std::tolower of one character
LowerChar(c) ==
  IF Find(UpperChars, c) THEN Char(LowerChars, FindPos(UpperChars, c)) ELSE c

\* utils.h:11-14
RECURSIVE to_lower(_)
to_lower(s) ==
  IF s = "" THEN "" ELSE LowerChar(Char(s, 1)) \o to_lower(SubSeq(s, 2, Len(s)))

\* utils.h:16-21
RECURSIVE trim(_)
trim(s) ==
  IF s = "" THEN ""
  ELSE IF IsSpace(Char(s, 1)) THEN trim(SubSeq(s, 2, Len(s)))
  ELSE IF IsSpace(Char(s, Len(s))) THEN trim(SubSeq(s, 1, Len(s) - 1))
  ELSE s

\* lexer.cpp:6-7
is_ident_start(c) == IsWord(c) /\ ~IsDigit(c)
is_ident_char(c) == IsWord(c)

\* lexer.cpp:36
kws ==
  {"select", "from", "where", "join", "on", "inner", "left", "right", "full",
   "natural", "anti", "outer", "group", "by", "order", "asc", "desc", "limit", "as",
   "and", "having", "between", "in", "sum", "count", "avg", "min", "max", "or",
   "not", "like", "any", "all", "case", "insert", "update", "delete", "into", "set",
   "values"}

Token(type, text) == [type |-> type, text |-> text]

\* lexer.cpp:22-25: the text of a quoted string from i up to the closing quote q,
\* a backslash taking the next character literally
RECURSIVE StringScan(_, _, _, _)
StringScan(s, i, q, val) ==
  IF i > Len(s) THEN [val |-> val, next |-> i]
  ELSE IF Char(s, i) = q THEN [val |-> val, next |-> i + 1]
  ELSE IF Char(s, i) = "\\" /\ i + 1 <= Len(s)
  THEN StringScan(s, i + 2, q, val \o Char(s, i + 1))
  ELSE StringScan(s, i + 1, q, val \o Char(s, i))

\* lexer.cpp:29: last index of the run of digits and dots starting at i
RECURSIVE NumberEnd(_, _)
NumberEnd(s, i) ==
  IF i <= Len(s) /\ (IsDigit(Char(s, i)) \/ Char(s, i) = ".")
  THEN NumberEnd(s, i + 1) ELSE i - 1

\* lexer.cpp:41-46: the operator starting at i
OpText(s, i) ==
  LET c == Char(s, i)
      d == IF i + 1 <= Len(s) THEN Char(s, i + 1) ELSE ""
  IN IF c \in {"<", ">"}
     THEN (IF d = c THEN c \o c ELSE IF d = "=" THEN c \o d ELSE c)
     ELSE (IF d \in {"=", ">", "<", "|"} THEN c \o d ELSE c)

Punctuation ==
  [c \in {"*", ",", ".", "(", ")", ";"} |->
     CASE c = "*" -> "STAR" [] c = "," -> "COMMA" [] c = "." -> "DOT"
       [] c = "(" -> "LPAREN" [] c = ")" -> "RPAREN" [] OTHER -> "SEMICOLON"]

\* lexer.cpp:14-47: the token that starts at the non-space position i and the
\* position after it
NextToken(s, i) ==
  LET c == Char(s, i) IN
  IF c \in DOMAIN Punctuation
  THEN [tok |-> Token(Punctuation[c], c), next |-> i + 1]
  ELSE IF c \in {"'", "\""}
  THEN LET r == StringScan(s, i + 1, c, "")
       IN [tok |-> Token("STRING", r.val), next |-> r.next]
  ELSE IF IsDigit(c)
  THEN LET j == NumberEnd(s, i)
       IN [tok |-> Token("NUMBER", SubSeq(s, i, j)), next |-> j + 1]
  ELSE IF is_ident_start(c)
  THEN LET j == WordEnd(s, i)
           id == SubSeq(s, i, j)
       IN [tok |-> Token(IF to_lower(id) \in kws THEN "KW" ELSE "IDENT", id),
           next |-> j + 1]
  ELSE IF c \in {"<", ">", "=", "!", "~", "+", "-", "/", "%", "&", "|", "^"}
  THEN LET op == OpText(s, i)
       IN [tok |-> Token("OP", op), next |-> i + Len(op)]
  ELSE [tok |-> Token("IDENT", c), next |-> i + 1]

\* lexer.cpp:9-52 Lexer::tokenize, from position i with `out` the tokens so far
RECURSIVE tokenizeFrom(_, _, _)
tokenizeFrom(s, i, out) ==
  LET j == SpaceEnd(s, i) + 1 IN
  IF j > Len(s) THEN Append(out, Token("END", ""))
  ELSE tokenizeFrom(s, NextToken(s, j).next, Append(out, NextToken(s, j).tok))

tokenize(s) == tokenizeFrom(s, 1, <<>>)

(***************************************************************************)
(* Parser (parser.cpp): parse_select over the token list.  Positions are   *)
(* 1-based; a step returns the position it stopped at with what it read.   *)
(***************************************************************************)

\* parser.cpp:8
is_kw(t, kw) == t.type = "KW" /\ to_lower(t.text) = kw

\* toks[k] is there and is the keyword / has the type
KwAt(toks, k, kw) == k <= Len(toks) /\ is_kw(toks[k], kw)
TypeAt(toks, k, type) == k <= Len(toks) /\ toks[k].type = type

ParseFail(msg) == [ok |-> FALSE, message |-> msg]

\* parser.cpp:47,50: what ends a select expression
ItemStop(t) == is_kw(t, "from") \/ t.type = "COMMA" \/ is_kw(t, "as")

NoSpaceTypes == {"DOT", "LPAREN", "RPAREN", "STAR"}

\* parser.cpp:50-61: the expression text of one select item
RECURSIVE ItemExpr(_, _, _)
ItemExpr(toks, k, expr) ==
  IF k <= Len(toks) /\ ~ItemStop(toks[k])
  THEN LET space == /\ k + 1 <= Len(toks)
                    /\ ~ItemStop(toks[k + 1])
                    /\ toks[k + 1].type \notin NoSpaceTypes
                    /\ toks[k].type \notin NoSpaceTypes
       IN ItemExpr(toks, k + 1, expr \o toks[k].text \o (IF space THEN " " ELSE ""))
  ELSE [k |-> k, expr |-> expr]

\* parser.cpp:63-64: the output alias after a select expression
ItemAlias(toks, k) ==
  IF KwAt(toks, k, "as")
  THEN (IF TypeAt(toks, k + 1, "IDENT")
        THEN [k |-> k + 2, alias |-> toks[k + 1].text]
        ELSE [k |-> k + 1, alias |-> ""])
  ELSE IF TypeAt(toks, k, "IDENT")
  THEN [k |-> k + 1, alias |-> toks[k].text]
  ELSE [k |-> k, alias |-> ""]

\* parser.cpp:47-67
RECURSIVE ParseItems(_, _, _)
ParseItems(toks, k, items) ==
  IF k <= Len(toks) /\ ~is_kw(toks[k], "from") /\ toks[k].type # "COMMA"
  THEN LET e == ItemExpr(toks, k, "")
           a == ItemAlias(toks, e.k)
           now == Append(items, SelectItem(trim(e.expr), a.alias))
       IN IF TypeAt(toks, a.k, "COMMA")
          THEN ParseItems(toks, a.k + 1, now)
          ELSE [k |-> a.k, items |-> now]
  ELSE [k |-> k, items |-> items]

\* parser.cpp:71-79 parse_table; an empty name reports the failure
parse_table(toks, k) ==
  IF ~TypeAt(toks, k, "IDENT")
  THEN [k |-> k, table |-> TableRef("", ""), message |-> "Expected table name"]
  ELSE LET name == to_lower(toks[k].text) IN
    IF KwAt(toks, k + 1, "as")
    THEN (IF TypeAt(toks, k + 2, "IDENT")
          THEN [k |-> k + 3, table |-> TableRef(name, to_lower(toks[k + 2].text)),
                message |-> ""]
          ELSE [k |-> k + 2, table |-> TableRef("", ""),
                message |-> "Expected alias after AS"])
    ELSE IF TypeAt(toks, k + 1, "IDENT")
    THEN [k |-> k + 2, table |-> TableRef(name, to_lower(toks[k + 1].text)),
          message |-> ""]
    ELSE [k |-> k + 1, table |-> TableRef(name, ""), message |-> ""]

\* parser.cpp:85-97: comma-separated tables become INNER joins ON "1=1"
RECURSIVE ParseCommaTables(_, _, _)
ParseCommaTables(toks, k, joins) ==
  IF TypeAt(toks, k, "COMMA")
  THEN LET t == parse_table(toks, k + 1) IN
       IF t.table.name = "" THEN [ok |-> FALSE, k |-> t.k, joins |-> joins,
                                  message |-> t.message]
       ELSE ParseCommaTables(toks, t.k,
                             Append(joins, JoinClause("INNER", t.table, <<"1=1">>)))
  ELSE [ok |-> TRUE, k |-> k, joins |-> joins, message |-> ""]

\* parser.cpp:100-105: the join type and the position after its words
JoinKind(toks, k) ==
  IF KwAt(toks, k, "left")
  THEN (IF KwAt(toks, k + 1, "anti") THEN [k |-> k + 2, type |-> "LEFT_ANTI"]
        ELSE [k |-> k + 1, type |-> "LEFT"])
  ELSE IF KwAt(toks, k, "right")
  THEN (IF KwAt(toks, k + 1, "anti") THEN [k |-> k + 2, type |-> "RIGHT_ANTI"]
        ELSE [k |-> k + 1, type |-> "RIGHT"])
  ELSE IF KwAt(toks, k, "full")
  THEN (IF KwAt(toks, k + 1, "outer")
        THEN (IF KwAt(toks, k + 2, "anti")
              THEN [k |-> k + 3, type |-> "FULL_OUTER_ANTI"]
              ELSE [k |-> k + 2, type |-> "FULL"])
        ELSE [k |-> k + 1, type |-> "FULL"])
  ELSE IF KwAt(toks, k, "natural") THEN [k |-> k + 1, type |-> "NATURAL"]
  ELSE IF KwAt(toks, k, "inner") THEN [k |-> k + 1, type |-> "INNER"]
  ELSE [k |-> k, type |-> "INNER"]

\* parser.cpp:114,116: an identifier, with ".column" when a dot and a name follow
OnOperand(toks, k) ==
  IF TypeAt(toks, k, "IDENT")
  THEN (IF TypeAt(toks, k + 1, "DOT")
        THEN (IF TypeAt(toks, k + 2, "IDENT")
              THEN [k |-> k + 3, text |-> toks[k].text \o "." \o toks[k + 2].text]
              ELSE [k |-> k + 2, text |-> toks[k].text])
        ELSE [k |-> k + 1, text |-> toks[k].text])
  ELSE [k |-> k, text |-> ""]

\* parser.cpp:99-121: the explicit joins
RECURSIVE ParseJoins(_, _, _)
ParseJoins(toks, k, joins) ==
  IF k <= Len(toks)
     /\ \E w \in {"join", "inner", "left", "right", "full", "natural"} : is_kw(toks[k], w)
  THEN LET jk == JoinKind(toks, k) IN
    IF ~KwAt(toks, jk.k, "join")
    THEN [ok |-> FALSE, k |-> jk.k, joins |-> joins, message |-> "Expected JOIN"]
    ELSE LET t == parse_table(toks, jk.k + 1) IN
      IF t.table.name = ""
      THEN [ok |-> FALSE, k |-> t.k, joins |-> joins, message |-> t.message]
      ELSE IF jk.type = "NATURAL"
      THEN ParseJoins(toks, t.k, Append(joins, JoinClause(jk.type, t.table, <<>>)))
      ELSE IF ~KwAt(toks, t.k, "on")
      THEN [ok |-> FALSE, k |-> t.k, joins |-> joins, message |-> "Expected ON"]
      ELSE LET lhs == OnOperand(toks, t.k + 1)
               op == IF TypeAt(toks, lhs.k, "OP")
                     THEN [k |-> lhs.k + 1, text |-> toks[lhs.k].text]
                     ELSE [k |-> lhs.k, text |-> ""]
               rhs == OnOperand(toks, op.k)
           IN IF lhs.text = "" \/ rhs.text = "" \/ op.text = ""
              THEN [ok |-> FALSE, k |-> rhs.k, joins |-> joins,
                    message |-> "Malformed JOIN ON condition"]
              ELSE ParseJoins(toks, rhs.k,
                     Append(joins, JoinClause(jk.type, t.table,
                              <<lhs.text \o " " \o op.text \o " " \o rhs.text>>)))
  ELSE [ok |-> TRUE, k |-> k, joins |-> joins, message |-> ""]

\* parser.cpp:129,159: a token's text in a condition, strings quoted again
CondText(t) == IF t.type = "STRING" THEN "'" \o t.text \o "'" ELSE t.text

\* parser.cpp:126-132 (WHERE) and 155-162 (HAVING): the conjuncts up to one of
\* the `stops` keywords, split at AND; HAVING also skips commas
RECURSIVE ParseConds(_, _, _, _, _, _)
ParseConds(toks, k, stops, skipComma, accum, conds) ==
  IF k <= Len(toks) /\ ~(toks[k].type = "KW" /\ to_lower(toks[k].text) \in stops)
  THEN IF skipComma /\ toks[k].type = "COMMA"
       THEN ParseConds(toks, k + 1, stops, skipComma, accum, conds)
       ELSE IF is_kw(toks[k], "and")
       THEN ParseConds(toks, k + 1, stops, skipComma, "",
                       IF accum # "" THEN Append(conds, accum) ELSE conds)
       ELSE ParseConds(toks, k + 1, stops, skipComma,
                       (IF accum # "" THEN accum \o " " ELSE "") \o CondText(toks[k]),
                       conds)
  ELSE [k |-> k, conds |-> IF accum # "" THEN Append(conds, accum) ELSE conds]

\* parser.cpp:137-149: the GROUP BY columns
RECURSIVE ParseGroupBy(_, _, _)
ParseGroupBy(toks, k, cols) ==
  IF TypeAt(toks, k, "IDENT")
  THEN LET c == IF TypeAt(toks, k + 1, "DOT")
                THEN (IF TypeAt(toks, k + 2, "IDENT")
                      THEN [k |-> k + 3,
                            text |-> toks[k].text \o "." \o toks[k + 2].text]
                      ELSE [k |-> k + 2, text |-> toks[k].text \o "."])
                ELSE [k |-> k + 1, text |-> toks[k].text]
       IN IF TypeAt(toks, c.k, "COMMA")
          THEN ParseGroupBy(toks, c.k + 1, Append(cols, c.text))
          ELSE [k |-> c.k, cols |-> Append(cols, c.text)]
  ELSE [k |-> k, cols |-> cols]

\* ast.h:24 struct OrderItem
OrderItem(expr, asc) == [expr |-> expr, asc |-> asc]

\* parser.cpp:167-170: the ORDER BY items
RECURSIVE ParseOrderBy(_, _, _)
ParseOrderBy(toks, k, items) ==
  IF TypeAt(toks, k, "IDENT")
  THEN LET dir == KwAt(toks, k + 1, "asc") \/ KwAt(toks, k + 1, "desc")
           oi == OrderItem(toks[k].text, IF dir THEN is_kw(toks[k + 1], "asc") ELSE TRUE)
           k1 == IF dir THEN k + 2 ELSE k + 1
       IN IF TypeAt(toks, k1, "COMMA")
          THEN ParseOrderBy(toks, k1 + 1, Append(items, oi))
          ELSE [k |-> k1, items |-> Append(items, oi)]
  ELSE [k |-> k, items |-> items]

\* std::stoi on a NUMBER token: the value of its leading digits
RECURSIVE stoiFrom(_, _, _)
stoiFrom(s, i, v) ==
  IF i <= Len(s) /\ IsDigit(Char(s, i))
  THEN stoiFrom(s, i + 1, 10 * v + (FindPos(Digits, Char(s, i)) - 1))
  ELSE v

stoi(s) == stoiFrom(s, 1, 0)

\* parser.cpp:178-180: skip semicolons, END and empty tokens
RECURSIVE SkipTrailing(_, _)
SkipTrailing(toks, k) ==
  IF k <= Len(toks) /\ (toks[k].type \in {"SEMICOLON", "END"} \/ toks[k].text = "")
  THEN SkipTrailing(toks, k + 1) ELSE k

\* ast.h:31-42 struct SelectQuery
SelectQuery(items, from, joins, where, group, having, order, limit) ==
  [distinct |-> FALSE, select_items |-> items, from_table |-> from, joins |-> joins,
   where_conditions |-> where, group_by |-> group, having_conditions |-> having,
   order_by |-> order, limit |-> limit]

\* parser.cpp:177-190: LIMIT has been read; trailing semicolons, then the end
ParseEnd(toks, out, k) ==
  IF SkipTrailing(toks, k) <= Len(toks) THEN ParseFail("Extra tokens after query")
  ELSE [ok |-> TRUE, q |-> out]

\* parser.cpp:172-176
ParseLimit(toks, out, k) ==
  IF ~KwAt(toks, k, "limit") THEN ParseEnd(toks, out, k)
  ELSE IF ~TypeAt(toks, k + 1, "NUMBER") THEN ParseFail("Expected numeric LIMIT")
  ELSE ParseEnd(toks, [out EXCEPT !.limit = stoi(toks[k + 1].text)], k + 2)

\* parser.cpp:164-171
AfterOrderBy(toks, out, ob) ==
  ParseLimit(toks, [out EXCEPT !.order_by = ob.items], ob.k)

ParseOrder(toks, out, k) ==
  IF ~KwAt(toks, k, "order") THEN ParseLimit(toks, out, k)
  ELSE IF ~KwAt(toks, k + 1, "by") THEN ParseFail("Expected BY")
  ELSE AfterOrderBy(toks, out, ParseOrderBy(toks, k + 2, <<>>))

\* parser.cpp:151-163
AfterHaving(toks, out, hv) ==
  ParseOrder(toks, [out EXCEPT !.having_conditions = hv.conds], hv.k)

ParseHaving(toks, out, k) ==
  IF ~KwAt(toks, k, "having") THEN ParseOrder(toks, out, k)
  ELSE AfterHaving(toks, out, ParseConds(toks, k + 1, {"order", "limit"}, TRUE, "", <<>>))

\* parser.cpp:134-150
AfterGroupBy(toks, out, gb) ==
  ParseHaving(toks, [out EXCEPT !.group_by = gb.cols], gb.k)

ParseGroup(toks, out, k) ==
  IF ~KwAt(toks, k, "group") THEN ParseHaving(toks, out, k)
  ELSE IF ~KwAt(toks, k + 1, "by") THEN ParseFail("Expected BY")
  ELSE AfterGroupBy(toks, out, ParseGroupBy(toks, k + 2, <<>>))

\* parser.cpp:123-133
AfterWhere(toks, out, wh) ==
  ParseGroup(toks, [out EXCEPT !.where_conditions = wh.conds], wh.k)

ParseWhere(toks, out, k) ==
  IF ~KwAt(toks, k, "where") THEN ParseGroup(toks, out, k)
  ELSE AfterWhere(toks, out,
         ParseConds(toks, k + 1, {"group", "order", "limit"}, FALSE, "", <<>>))

\* parser.cpp:99-122
AfterJoins(toks, out, ej) ==
  IF ~ej.ok THEN ParseFail(ej.message)
  ELSE ParseWhere(toks, [out EXCEPT !.joins = ej.joins], ej.k)

\* parser.cpp:85-98
AfterCommaTables(toks, out, cj) ==
  IF ~cj.ok THEN ParseFail(cj.message)
  ELSE AfterJoins(toks, out, ParseJoins(toks, cj.k, cj.joins))

\* parser.cpp:69-84
AfterFromTable(toks, out, ft) ==
  IF ft.table.name = "" THEN ParseFail(ft.message)
  ELSE AfterCommaTables(toks, [out EXCEPT !.from_table = ft.table],
                        ParseCommaTables(toks, ft.k, <<>>))

\* parser.cpp:45-68
AfterItems(toks, it) ==
  IF ~KwAt(toks, it.k, "from") THEN ParseFail("Expected FROM")
  ELSE AfterFromTable(toks,
         [SelectQuery(it.items, TableRef("", ""), <<>>, <<>>, <<>>, <<>>, <<>>, -1)
            EXCEPT !.distinct = KwAt(toks, 2, "distinct")],
         parse_table(toks, it.k + 1))

\* parser.cpp:35-191 Parser::parse_select on the tokens of a line that starts
\* with SELECT: [ok, q] or [ok, message]; each clause hands the query built so
\* far to the next one
parse_select(toks) ==
  AfterItems(toks, ParseItems(toks, IF KwAt(toks, 2, "distinct") THEN 3 ELSE 2, <<>>))

(***************************************************************************)
(* QueryRewriter (query_rewriter.cpp)                                      *)
(***************************************************************************)

\* query_rewriter.cpp:74-75, 82-83: the condition text holds "alias." or "alias "
Involves(cond, alias) == Find(cond, alias \o ".") \/ Find(cond, alias \o " ")

\* A join whose first ON condition is the parser's comma-join placeholder
IsSentinel(join) == join.on_conds # <<>> /\ join.on_conds[1] = "1=1"

\* query_rewriter.cpp:51-66: main alias and the aliases of the joins before j
\* (the join's own alias is skipped by the test at line 81)
OtherAliases(q, j) ==
  {EffAlias(q.from_table)} \cup {EffAlias(q.joins[p].table) : p \in 1..(j - 1)}

\* query_rewriter.cpp:69-93: the WHERE conditions collected for sentinel join j
JoinConditionsFor(q, j) ==
  LET join_alias == EffAlias(q.joins[j].table)
      IsJoinCond(cond) ==
        /\ Involves(cond, join_alias)
        /\ \E alias \in OtherAliases(q, j) :
             alias # join_alias /\ Involves(cond, alias)
  IN SelectSeq(q.where_conditions, IsJoinCond)

\* query_rewriter.cpp:104-124: drop from WHERE what equals an ON condition of any join
RemoveJoinConds(where, joins) ==
  LET Keep(cond) == cond \notin AllOnConds(joins) IN SelectSeq(where, Keep)

\* std::set<std::string> iterated in order: the sorted sequence of a set of strings
RECURSIVE SortedSeq(_)
SortedSeq(S) ==
  IF S = {} THEN <<>>
  ELSE LET m == CHOOSE a \in S : \A b \in S : ~StrLess(b, a)
       IN <<m>> \o SortedSeq(S \ {m})

\* query_rewriter.cpp:164-172: the table name guessed for an alias
AliasTableName(alias) ==
  CASE alias = "ew" -> "electionwinner"
    [] alias = "c" -> "candidate"
    [] alias = "e" -> "election"
    [] alias = "p" -> "party"
    [] alias = "d" -> "district"
    [] alias = "po" -> "post"
    [] alias = "v" -> "voter"
    [] alias = "s" -> "state"
    [] OTHER -> alias

\* query_rewriter.cpp:135-215
reconstructCommaJoins(q) ==
  LET main_alias == EffAlias(q.from_table)
      found == UNION {LET m == RegexSearch(q.where_conditions[i], table_pattern)
                      IN IF m.ok THEN {m.caps[1], m.caps[3]} ELSE {}
                      : i \in DOMAIN q.where_conditions}
      table_aliases == SortedSeq(found \ {main_alias})
      CondsOf(alias) ==
        LET Is(cond) ==
              /\ Find(cond, alias \o ".")
              /\ (Find(cond, main_alias \o ".") \/ Find(cond, "="))
        IN SelectSeq(q.where_conditions, Is)
      NewJoin(alias) ==
        JoinClause("INNER", TableRef(AliasTableName(alias), alias), CondsOf(alias))
      HasConds(alias) == CondsOf(alias) # <<>>
      kept == SelectSeq(table_aliases, HasConds)
      reconstructed_joins == [i \in 1..Len(kept) |-> NewJoin(kept[i])]
  IN IF reconstructed_joins # <<>>
     THEN [q EXCEPT !.joins = reconstructed_joins,
                    !.where_conditions =
                       RemoveJoinConds(q.where_conditions, reconstructed_joins)]
     ELSE q

\* query_rewriter.cpp:41-133
convertCommaJoins(q) ==
  LET Converted(j) == IsSentinel(q.joins[j]) /\ JoinConditionsFor(q, j) # <<>>
      joins1 == [j \in 1..Len(q.joins) |->
                   IF Converted(j)
                   THEN [q.joins[j] EXCEPT !.on_conds = JoinConditionsFor(q, j)]
                   ELSE q.joins[j]]
      conversions_made == \E j \in 1..Len(q.joins) : Converted(j)
      q1 == [q EXCEPT !.joins = joins1,
                      !.where_conditions = RemoveJoinConds(q.where_conditions, joins1)]
  IN IF ~conversions_made /\ q1.joins = <<>> /\ q1.where_conditions # <<>>
     THEN reconstructCommaJoins(q1)
     ELSE q1

\* query_rewriter.cpp:225-323: what one select item becomes:
\* [item: the new select item, joins: the joins it adds (none or one)]
ConvertItem(item) ==
  LET Has(t) == Find(item.expr, t)
      Hard(tbl, al, on, col) ==
        [item |-> SelectItem(col, item.alias),
         joins |-> <<JoinClause("LEFT", TableRef(tbl, al), <<on>>)>>]
      m == RegexSearch(item.expr, generic_pattern)
  IN IF ~(Has("(SELECT") /\ Has("FROM")) THEN [item |-> item, joins |-> <<>>]
     ELSE IF Has("PartyName") /\ Has("party") /\ Has("PartyID")
       THEN Hard("party", "p", "c.PartyID = p.PartyID", "p.PartyName")
     ELSE IF Has("DistrictName") /\ Has("district") /\ Has("DistrictID")
       THEN Hard("district", "d", "c.DistrictID = d.DistrictID", "d.DistrictName")
     ELSE IF Has("PostName") /\ Has("post") /\ Has("PostID")
       THEN Hard("post", "po", "e.PostID = po.PostID", "po.PostName")
     ELSE IF m.ok
       THEN [item |-> SelectItem(m.caps[3] \o "." \o m.caps[1], item.alias),
             joins |-> <<JoinClause("LEFT", TableRef(m.caps[2], m.caps[3]),
                           <<m.caps[6] \o "." \o m.caps[7] \o " = " \o
                             m.caps[4] \o "." \o m.caps[5]>>)>>]
     ELSE [item |-> item, joins |-> <<>>]

RECURSIVE Concat(_)
Concat(ss) == IF ss = <<>> THEN <<>> ELSE Head(ss) \o Concat(Tail(ss))

\* query_rewriter.cpp:217-330
convertSubqueriesToJoins(q) ==
  LET conv == [i \in 1..Len(q.select_items) |-> ConvertItem(q.select_items[i])]
      additional_joins == Concat([i \in 1..Len(conv) |-> conv[i].joins])
      conversions_made == additional_joins # <<>>
  IN IF conversions_made
     THEN [q EXCEPT !.select_items = [i \in 1..Len(conv) |-> conv[i].item],
                    !.joins = q.joins \o additional_joins]
     ELSE q

\* query_rewriter.cpp:24-32
pushdownPredicates(q) ==
  IF q.joins = <<>>
  THEN [q EXCEPT !.from_table.pushedFilters = q.where_conditions,
                 !.where_conditions = <<>>]
  ELSE q

\* query_rewriter.cpp:34-39
pushdownProjections(q) == q

\* Insert join j into a list sorted by table name, after the joins not greater
\* than it (std::sort on at most 16 elements is an insertion sort).
RECURSIVE InsertByName(_, _)
InsertByName(sorted, j) ==
  IF sorted = <<>> THEN <<j>>
  ELSE IF StrLess(j.table.name, sorted[Len(sorted)].table.name)
       THEN Append(InsertByName(SubSeq(sorted, 1, Len(sorted) - 1), j),
                   sorted[Len(sorted)])
       ELSE Append(sorted, j)

RECURSIVE SortByName(_)
SortByName(joins) ==
  IF joins = <<>> THEN <<>>
  ELSE InsertByName(SortByName(SubSeq(joins, 1, Len(joins) - 1)), joins[Len(joins)])

\* query_rewriter.cpp:353-363
reorderJoins(q) ==
  IF Len(q.joins) > 1 THEN [q EXCEPT !.joins = SortByName(q.joins)] ELSE q

\* query_rewriter.cpp:7-22
rewrite(q) ==
  reorderJoins(pushdownProjections(pushdownPredicates(
    convertSubqueriesToJoins(convertCommaJoins(q)))))

(***************************************************************************)
(* AST-to-SQL emission and the optimizer's fallbacks (optimizer.cpp)       *)
(***************************************************************************)

\* optimizer.cpp:9-20
join_type_to_string(jt) ==
  CASE jt = "INNER" -> "INNER"
    [] jt = "LEFT" -> "LEFT"
    [] jt = "FULL" -> "FULL"
    [] jt = "NATURAL" -> "NATURAL"
    [] jt = "LEFT_ANTI" -> "LEFT ANTI"
    [] jt = "RIGHT_ANTI" -> "RIGHT ANTI"
    [] jt = "FULL_OUTER_ANTI" -> "FULL OUTER ANTI"
    [] OTHER -> "INNER"

\* The texts of a list joined by a separator
RECURSIVE JoinStr(_, _)
JoinStr(ss, sep) ==
  IF ss = <<>> THEN ""
  ELSE IF Len(ss) = 1 THEN ss[1]
  ELSE ss[1] \o sep \o JoinStr(Tail(ss), sep)

\* optimizer.cpp:138-139
ItemSQL(it) == it.expr \o (IF it.alias # "" THEN " AS " \o it.alias ELSE "")

\* optimizer.cpp:149-157
JoinSQL(j) ==
  " " \o join_type_to_string(j.type) \o " JOIN " \o j.table.name
  \o (IF j.table.alias # "" THEN " AS " \o j.table.alias ELSE "")
  \o (IF j.on_conds # <<>> THEN " ON " \o JoinStr(j.on_conds, " AND ") ELSE "")

\* optimizer.cpp:184
OrderSQL(o) == o.expr \o (IF o.asc THEN "" ELSE " DESC")

\* optimizer.cpp:133-188
selectQueryToSQL(sq) ==
  LET filters == sq.from_table.pushedFilters \o sq.where_conditions IN
  "SELECT "
  \o (IF sq.select_items # <<>>
      THEN JoinStr([i \in 1..Len(sq.select_items) |-> ItemSQL(sq.select_items[i])], ", ")
      ELSE "*")
  \o " FROM " \o sq.from_table.name
  \o (IF sq.from_table.alias # "" THEN " AS " \o sq.from_table.alias ELSE "")
  \o JoinStr([i \in 1..Len(sq.joins) |-> JoinSQL(sq.joins[i])], "")
  \o (IF filters # <<>> THEN " WHERE " \o JoinStr(filters, " AND ") ELSE "")
  \o (IF sq.group_by # <<>> THEN " GROUP BY " \o JoinStr(sq.group_by, ", ") ELSE "")
  \o (IF sq.having_conditions # <<>>
      THEN " HAVING " \o JoinStr(sq.having_conditions, " AND ") ELSE "")
  \o (IF sq.order_by # <<>>
      THEN " ORDER BY "
           \o JoinStr([i \in 1..Len(sq.order_by) |-> OrderSQL(sq.order_by[i])], ", ")
      ELSE "")
  \o (IF sq.limit >= 0 THEN " LIMIT " \o ToString(sq.limit) ELSE "")

\* The first of the alternative patterns `alts` that matches s at i
MatchAlt(s, i, alts) ==
  LET ok == SelectSeq(alts, LAMBDA pat : MatchFrom(s, i, pat, 1, <<>>).ok)
  IN IF ok = <<>> THEN NoMatch ELSE MatchFrom(s, i, ok[1], 1, <<>>)

\* std::regex_replace: every leftmost non-overlapping match of the regex, given
\* as its alternatives in the order the regex tries them, is replaced by rep
RECURSIVE RegexReplaceFrom(_, _, _, _)
RegexReplaceFrom(s, i, alts, rep) ==
  LET at == {k \in i..Len(s) :
               LET m == MatchAlt(s, k, alts) IN m.ok /\ m.stop > k}
  IN IF at = {} THEN SubSeq(s, i, Len(s))
     ELSE LET k == CHOOSE a \in at : \A b \in at : a <= b
              m == MatchAlt(s, k, alts)
          IN SubSeq(s, i, k - 1) \o rep \o RegexReplaceFrom(s, m.stop, alts, rep)

RegexReplace(s, alts, rep) == RegexReplaceFrom(s, 1, alts, rep)

\* std::string::insert(pos, text) with pos the 0-based offset after a found text
InsertAfter(s, found, text) ==
  LET at == FindPos(s, found) + Len(found) - 1 IN
  SubSeq(s, 1, at) \o text \o SubSeq(s, at + 1, Len(s))

\* optimizer.cpp:48-49: the join condition and the AND after it, as the two
\* alternatives of the optional group (AND\s*)? tried in the regex's order
CondWithAnd(a, col, b) ==
  <<Lit(a), S0, Lit("."), S0, Lit(col), S0, Lit("="), S0, Lit(b), S0, Lit("."), S0,
    Lit(col), S0, Lit("AND"), S0>>
CondAlone(a, col, b) ==
  <<Lit(a), S0, Lit("."), S0, Lit(col), S0, Lit("="), S0, Lit(b), S0, Lit("."), S0,
    Lit(col), S0>>

\* regex WHERE\s*$ : a WHERE with only white space up to the end of the text
DropEmptyWhere(s) ==
  LET at == {i \in 1..Len(s) :
               LET m == MatchFrom(s, i, <<Lit("WHERE"), S0>>, 1, <<>>)
               IN m.ok /\ m.stop = Len(s) + 1}
  IN IF at = {} THEN s
     ELSE SubSeq(s, 1, (CHOOSE i \in at : \A j \in at : i <= j) - 1)

\* optimizer.cpp:45-52: the two moved conditions are cut out of the WHERE text
CleanWhere(where_clause) ==
  DropEmptyWhere(
    RegexReplace(
      RegexReplace(where_clause, <<CondWithAnd("ew", "CandidateID", "c"),
                                    CondAlone("ew", "CandidateID", "c")>>, ""),
      <<CondWithAnd("ew", "ElectionID", "e"), CondAlone("ew", "ElectionID", "e")>>,
      ""))

\* optimizer.cpp:33-54: from_pos is where the comma list starts and where_pos
\* the first WHERE at or after it
RebuildFrom(sql, from_pos, where_pos) ==
  SubSeq(sql, 1, from_pos - 1)
  \o "FROM electionwinner ew INNER JOIN candidate c ON ew.CandidateID = c.CandidateID INNER JOIN election e ON ew.ElectionID = e.ElectionID"
  \o " " \o CleanWhere(SubSeq(sql, where_pos, Len(sql)))

\* std::string::find(p, from), 1-based, for a p that occurs at or after from
FindPosFrom(s, p, from) ==
  CHOOSE i \in from..(Len(s) - Len(p) + 1) :
    /\ SubSeq(s, i, i + Len(p) - 1) = p
    /\ \A j \in from..(i - 1) : SubSeq(s, j, j + Len(p) - 1) # p

\* optimizer.cpp:33-36
RebuildAt(sql, from_pos) == RebuildFrom(sql, from_pos, FindPosFrom(sql, "WHERE", from_pos))

\* optimizer.cpp:22-57
forceCommaJoinConversion(sql) ==
  IF Find(sql, "FROM electionwinner ew , candidate c , election e WHERE")
  THEN RebuildAt(sql, FindPos(sql, "FROM electionwinner ew , candidate c , election e"))
  ELSE sql

ElectionJoinSQL == "INNER JOIN election e ON ew.ElectionID = e.ElectionID"
PartyJoinSQL == "INNER JOIN party p ON c.PartyID = p.PartyID"
DistrictJoinSQL == "INNER JOIN district d ON c.DistrictID = d.DistrictID"
PostJoinSQL == "INNER JOIN post po ON e.PostID = po.PostID"

\* optimizer.cpp:77-83, 98-104, 119-125: the join goes after the first anchor
\* that was found in the text
InsertAtAnchor(r, join, found) ==
  IF found = <<>> THEN r ELSE InsertAfter(r, found[1], " " \o join)

\* optimizer.cpp:75-84, 96-105, 117-126: nothing is inserted when the join is
\* in the text already
InsertJoin(r, join, anchors) ==
  IF Find(r, join) THEN r
  ELSE InsertAtAnchor(r, join, SelectSeq(anchors, LAMBDA a : Find(r, a)))

\* optimizer.cpp:66-128: one of the three textual patterns: when `trigger` is in
\* the text, `subquery` is replaced by `col`, and `join` is inserted after the
\* first of the `anchors` found unless it is there already
ForcePattern(sql, trigger, subquery, col, join, anchors) ==
  IF ~Find(sql, trigger) THEN sql
  ELSE InsertJoin(RegexReplace(sql, <<(<<Lit(subquery)>>)>>, col), join, anchors)

\* optimizer.cpp:66-85
ForcePartyName(sql) ==
  ForcePattern(sql,
    "(SELECT PartyName FROM party AS p WHERE p . PartyID = c . PartyID )",
    "(SELECT PartyName FROM party AS p WHERE p . PartyID = c . PartyID ) AS PartyName",
    "p.PartyName", PartyJoinSQL, <<ElectionJoinSQL>>)

\* optimizer.cpp:87-106
ForceDistrictName(sql) ==
  ForcePattern(sql,
    "( SELECT DistrictName FROM district d WHERE d . DistrictID = c . DistrictID )",
    "( SELECT DistrictName FROM district d WHERE d . DistrictID = c . DistrictID ) AS DistrictName",
    "d.DistrictName", DistrictJoinSQL, <<PartyJoinSQL, ElectionJoinSQL>>)

\* optimizer.cpp:108-128
ForcePostName(sql) ==
  ForcePattern(sql,
    "( SELECT PostName FROM post po WHERE po . PostID = e . PostID )",
    "( SELECT PostName FROM post po WHERE po . PostID = e . PostID ) AS PostName",
    "po.PostName", PostJoinSQL, <<DistrictJoinSQL, ElectionJoinSQL>>)

\* optimizer.cpp:59-131
forceSubqueryToJoinConversion(sql) ==
  ForcePostName(ForceDistrictName(ForcePartyName(sql)))

\* optimizer.cpp:205-234
HasCommaJoins(q) ==
  \/ \E j \in 1..Len(q.joins) : IsSentinel(q.joins[j])
  \/ q.joins # <<>>
  \/ /\ q.joins = <<>>
     /\ \E i \in 1..Len(q.where_conditions) :
          Find(q.where_conditions[i], ".") /\ Find(q.where_conditions[i], "=")

\* optimizer.cpp:236-243
HasSubqueries(q) ==
  \E i \in 1..Len(q.select_items) : Find(q.select_items[i].expr, "(SELECT")

\* optimizer.cpp:256-258
CommaFallback(q, sql) ==
  IF HasCommaJoins(q) /\ Find(sql, " , ") THEN forceCommaJoinConversion(sql) ELSE sql

\* optimizer.cpp:263-266: the text and whether the fallback changed it
Converted(before_conversion, sql) ==
  [sql |-> sql, ultimate_subquery_conversion |-> before_conversion # sql]

\* optimizer.cpp:261-267
SubqueryFallback(q, sql) ==
  IF HasSubqueries(q) /\ Find(sql, "(SELECT")
  THEN Converted(sql, forceSubqueryToJoinConversion(sql))
  ELSE Converted(sql, sql)

\* optimizer.cpp:253-267: the emitted SQL and ultimate_subquery_conversion
BuildSQL(q, rq) == SubqueryFallback(q, CommaFallback(q, selectQueryToSQL(rq)))

\* optimizer.cpp:286-313: the trace entries in order, without their step numbers
TraceEntries(q, rq, ultimate) ==
  (IF HasCommaJoins(q)
   THEN <<"[comma_join_conversion] Converted comma-separated tables to explicit JOINs">>
   ELSE <<>>)
  \o (IF (HasSubqueries(q) /\ Len(rq.joins) > Len(q.joins)) \/ ultimate
      THEN <<"[subquery_to_join_conversion] Converted scalar subqueries to JOINs for better performance">>
      ELSE <<>>)
  \o (IF rq.joins = <<>>
      THEN <<"[projection_pushdown] Keeping only selected columns">>
           \o (IF rq.where_conditions # <<>>
               THEN <<"[predicate_pushdown] Applied filters to table scan">> ELSE <<>>)
      ELSE <<"[join_reordering] Optimized join order",
             "[predicate_pushdown] Pushed filters to appropriate tables">>)

(***************************************************************************)
(* The statistics catalog (statistics_manager.cpp)                         *)
(***************************************************************************)

\* statistics_manager.h:25-31 struct TableStatistics as loadFromDatabase fills
\* it: statistics_manager.cpp:31 (table_name), 46 (page_count), 50-56 (columns),
\* 118-137 (indexes)
TableStatistics(name, rows, columns, indexes) ==
  [table_name |-> name, row_count |-> rows, page_count |-> (rows + 99) \div 100,
   columns |-> columns, available_indexes |-> indexes]

\* The tables of the database the session selected, in the order of the keys of
\* table_stats_ (std::map: upper case before lower case)
Catalog ==
  <<TableStatistics("Party", MaxRows \div 60, {"PartyID", "PartyName"}, <<>>),
    TableStatistics("orders", MaxRows, {"id", "user_id", "product_id", "status"}, <<>>),
    TableStatistics("products", MaxRows \div 6, {"id", "name"}, <<>>),
    TableStatistics("users", (2 * MaxRows) \div 3, {"id", "name"}, <<(<<"id">>)>>),
    TableStatistics("zed", MaxRows \div 30, {"id", "user_id"}, <<>>)>>

\* nullptr of the lookups
NoStats == TableStatistics("", 0, {}, <<>>)

\* statistics_manager.cpp:144-147
getTableStats(table_name) ==
  LET hit == SelectSeq(Catalog, LAMBDA ts : ts.table_name = table_name)
  IN IF hit = <<>> THEN NoStats ELSE hit[1]

\* statistics_manager.cpp:149-162
getTableStatsCI(table_name) ==
  LET hit == SelectSeq(Catalog,
                       LAMBDA ts : to_lower(ts.table_name) = to_lower(table_name))
  IN IF getTableStats(table_name) # NoStats THEN getTableStats(table_name)
     ELSE IF hit = <<>> THEN NoStats ELSE hit[1]

(***************************************************************************)
(* Semantic validation (semantic.cpp)                                      *)
(***************************************************************************)

\* semantic.cpp:10-17
has_column_ci(ts, col) ==
  ts # NoStats /\ \E c \in ts.columns : to_lower(c) = to_lower(col)

\* semantic.cpp:19-37: the (lower-cased alias, resolved table) pairs of the FROM
\* table and the joins, in the order they are entered
AliasEntries(q) ==
  LET tables == <<q.from_table>> \o [j \in 1..Len(q.joins) |-> q.joins[j].table]
  IN [i \in 1..Len(tables) |->
        LET resolved == getTableStatsCI(tables[i].name).table_name
        IN [alias |-> to_lower(IF tables[i].alias = "" THEN resolved
                               ELSE tables[i].alias),
            table |-> resolved]]

\* aliasToTable[a] after the entries were stored: the last one stored under a
AliasTable(entries, a) ==
  LET at == {i \in 1..Len(entries) : entries[i].alias = a}
  IN entries[CHOOSE i \in at : \A j \in at : j <= i].table

\* semantic.cpp:38-60: [ok, err] of one identifier
findColumn(entries, ident) ==
  LET p == FindPos(ident, ".") IN
  IF p # 0
  THEN LET a == SubSeq(ident, 1, p - 1)
           c == SubSeq(ident, p + 1, Len(ident))
           a_l == to_lower(a)
       IN IF \A i \in 1..Len(entries) : entries[i].alias # a_l
          THEN [ok |-> FALSE, err |-> "Unknown table/alias '" \o a \o "'"]
          ELSE IF ~has_column_ci(getTableStats(AliasTable(entries, a_l)), c)
          THEN [ok |-> FALSE,
                err |-> "Unknown column '" \o c \o "' in table '"
                        \o AliasTable(entries, a_l) \o "'"]
          ELSE [ok |-> TRUE, err |-> ""]
  ELSE LET found == Cardinality(
                      {entries[i].alias : i \in {k \in 1..Len(entries) :
                         has_column_ci(getTableStats(AliasTable(entries, entries[k].alias)),
                                       ident)}})
       IN IF found = 0
          THEN [ok |-> TRUE,
                err |-> "Warning: Column '" \o ident \o "' not found, proceeding anyway"]
          ELSE IF found > 1
          THEN [ok |-> FALSE,
                err |-> "Ambiguous column '" \o ident \o "', specify table/alias"]
          ELSE [ok |-> TRUE, err |-> ""]

\* semantic.cpp:63-67: the column text of a select item, checked unless it is *
\* or holds a parenthesis
ItemColumn(expr) ==
  LET as_pos == IF Find(expr, " as ") THEN FindPos(expr, " as ")
                ELSE FindPos(expr, " AS ")
  IN IF as_pos # 0 THEN SubSeq(expr, 1, as_pos - 1) ELSE expr

\* semantic.cpp:71-74: the identifier around the first dot of a condition
RECURSIVE WordStart(_, _)
WordStart(s, i) == IF i >= 1 /\ IsWord(Char(s, i)) THEN WordStart(s, i - 1) ELSE i + 1

DottedIdent(w) ==
  LET p == FindPos(w, ".") IN SubSeq(w, WordStart(w, p - 1), WordEnd(w, p + 1))

\* The checks of semantic.cpp:62-85 in their order: the identifiers looked up
CheckedIdents(q) ==
  LET cols == [i \in 1..Len(q.select_items) |-> ItemColumn(q.select_items[i].expr)]
      conds == q.where_conditions \o q.having_conditions
  IN SelectSeq(cols, LAMBDA c : c # "*" /\ ~Find(c, "("))
     \o [i \in 1..Len(SelectSeq(conds, LAMBDA w : Find(w, "."))) |->
           DottedIdent(SelectSeq(conds, LAMBDA w : Find(w, "."))[i])]

\* semantic.cpp:7-87: [ok, err]
semantic_validate(q) ==
  LET entries == AliasEntries(q)
      unknown == {j \in 1..Len(q.joins) : getTableStatsCI(q.joins[j].table.name) = NoStats}
      idents == CheckedIdents(q)
      bad == {i \in 1..Len(idents) : ~findColumn(entries, idents[i]).ok}
  IN IF getTableStatsCI(q.from_table.name) = NoStats
     THEN [ok |-> TRUE,
           err |-> "Warning: Table '" \o q.from_table.name
                   \o "' not found in statistics, proceeding anyway"]
     ELSE IF unknown # {}
     THEN [ok |-> FALSE,
           err |-> "Unknown table '"
                   \o q.joins[CHOOSE j \in unknown : \A k \in unknown : j <= k].table.name
                   \o "'"]
     ELSE IF bad # {}
     THEN [ok |-> FALSE,
           err |-> findColumn(entries, idents[CHOOSE i \in bad : \A k \in bad : i <= k]).err]
     ELSE [ok |-> TRUE, err |-> ""]

(***************************************************************************)
(* Cost estimation (cost_estimator.cpp).  Costs are counted in hundredths  *)
(* of the code's cost unit, so that CPU_TUPLE_COST = 0.01 is 1.            *)
(***************************************************************************)

\* cost_estimator.h:29-32, in hundredths
SEQ_PAGE_COST == 100
RAND_PAGE_COST == 400
CPU_TUPLE_COST == 1
INDEX_LOOKUP_COST == 200

Max(a, b) == IF a >= b THEN a ELSE b
Min(a, b) == IF a <= b THEN a ELSE b

\* cost_estimator.cpp:7-24 with selectivity 1.0
estimateTableScan(table_name) ==
  LET ts == getTableStats(table_name) IN
  IF ts = NoStats THEN 0
  ELSE Max(ts.page_count, 1) * SEQ_PAGE_COST + ts.row_count * CPU_TUPLE_COST

\* cost_estimator.cpp:26-46 with selectivity 1.0
estimateIndexScan(table_name) ==
  LET ts == getTableStats(table_name) IN
  IF ts = NoStats THEN 0
  ELSE INDEX_LOOKUP_COST + Max(ts.page_count, 1) * RAND_PAGE_COST
       + ts.row_count * CPU_TUPLE_COST

\* Fixed-point binary logarithm: LogScale * log2(n) for n >= 1, rounded down in
\* each of its LogBits squaring steps
LogBits == 14

RECURSIVE FloorLog2(_, _)
FloorLog2(n, e) == IF n < 2 THEN e ELSE FloorLog2(n \div 2, e + 1)

RECURSIVE Pow2(_)
Pow2(e) == IF e = 0 THEN 1 ELSE 2 * Pow2(e - 1)

LogScale == Pow2(LogBits)

\* x in [LogScale, 2*LogScale) is the mantissa; bit by bit of the fraction
RECURSIVE Log2Frac(_, _, _)
Log2Frac(x, bit, acc) ==
  IF bit > LogBits THEN acc
  ELSE LET sq == (x * x) \div LogScale IN
       IF sq >= 2 * LogScale
       THEN Log2Frac(sq \div 2, bit + 1, acc + LogScale \div Pow2(bit))
       ELSE Log2Frac(sq, bit + 1, acc)

Log2Fixed(n) ==
  LET e == FloorLog2(n, 0)
  IN e * LogScale + Log2Frac((n * LogScale) \div Pow2(e), 1, 0)

\* cost_estimator.cpp:74-87, in hundredths rounded down:
\* io = n * (log2 n / log2 1000) * RAND_PAGE_COST, cpu = n * log2 n * cols * 0.01
estimateSortCost(num_tuples, num_columns) ==
  LET lg == Log2Fixed(num_tuples) IN
  (num_tuples * lg * RAND_PAGE_COST) \div Log2Fixed(1000)
  + (num_tuples * lg * num_columns * CPU_TUPLE_COST) \div LogScale

\* cost_estimator.cpp:89-100
estimateAggregationCost(input_rows, group_by_cols) ==
  input_rows * group_by_cols * CPU_TUPLE_COST + input_rows * 10

\* cost_estimator.cpp:102-113 with the selectivity 0.5 of its one caller
estimateFilterCost(input_rows) ==
  input_rows * CPU_TUPLE_COST + ((input_rows \div 2) * SEQ_PAGE_COST) \div 10

\* cost_estimator.cpp:48-69 with the default join_type "nested_loop"
estimateJoinCost(left_rows, right_rows) ==
  left_rows * right_rows * CPU_TUPLE_COST + (left_rows + right_rows) * SEQ_PAGE_COST

(***************************************************************************)
(* Plan generation (plan_generator.cpp, execution_plan.h)                  *)
(***************************************************************************)

\* execution_plan.h:32-42 struct PlanNode with the fields of its subclasses:
\* args are the conditions, projections, sort keys or group-by columns
PlanNode(type, table, alias, args, children, cost, card) ==
  [type |-> type, table |-> table, alias |-> alias, join_type |-> "", args |-> args,
   children |-> children, estimated_cost |-> cost, estimated_cardinality |-> card]

\* execution_plan.h:76-85 struct JoinNode
JoinNode(join_type, left, right, conditions, cost, card) ==
  [PlanNode("JOIN", "", "", conditions, <<left, right>>, cost, card)
     EXCEPT !.join_type = join_type]

\* plan_generator.cpp:7-33
generateScanPlans(table_name, alias) ==
  LET ts == getTableStats(table_name)
      cols == IF ts = NoStats THEN <<>>
              ELSE Flatten(ts.available_indexes)
  IN IF ts = NoStats THEN <<>>
     ELSE <<PlanNode("SCAN", table_name, alias, <<>>, <<>>,
                     estimateTableScan(table_name), ts.row_count)>>
          \o [i \in 1..Len(cols) |->
                PlanNode("INDEX_SCAN", table_name, alias, <<cols[i]>>, <<>>,
                         estimateIndexScan(table_name), ts.row_count \div 10)]

\* plan_generator.cpp:142-158
generateFilterPlan(child, conditions) ==
  IF conditions = <<>> THEN child
  ELSE PlanNode("FILTER", "", "", conditions, <<child>>,
                child.estimated_cost + estimateFilterCost(child.estimated_cardinality),
                child.estimated_cardinality \div 2)

\* plan_generator.cpp:160-178
generateSortPlan(child, order_by) ==
  IF order_by = <<>> THEN child
  ELSE PlanNode("SORT", "", "", [i \in 1..Len(order_by) |-> order_by[i].expr],
                <<child>>,
                child.estimated_cost
                + estimateSortCost(child.estimated_cardinality, Len(order_by)),
                child.estimated_cardinality)

\* plan_generator.cpp:180-200
generateAggregatePlan(child, group_by) ==
  PlanNode("AGGREGATE", "", "", group_by, <<child>>,
           child.estimated_cost
           + estimateAggregationCost(child.estimated_cardinality, Len(group_by)),
           IF group_by = <<>> THEN 1 ELSE Max(1, child.estimated_cardinality \div 10))

\* plan_generator.cpp:202-210: the int limit arrives as a size_t, so a negative
\* one is a count above every cardinality
generateLimitPlan(child, limit) ==
  IF limit = 0 THEN child
  ELSE PlanNode("LIMIT", "", "",
                <<IF limit = -1 THEN "18446744073709551615" ELSE ToString(limit)>>,
                <<child>>, child.estimated_cost,
                IF limit < 0 THEN child.estimated_cardinality
                ELSE Min(limit, child.estimated_cardinality))

\* plan_generator.cpp:257-266, 332-341
generateProjectPlan(child, select_items) ==
  IF select_items = <<>> THEN child
  ELSE PlanNode("PROJECT", "", "",
                [i \in 1..Len(select_items) |->
                   select_items[i].expr
                   \o (IF select_items[i].alias = "" THEN ""
                       ELSE " as " \o select_items[i].alias)],
                <<child>>, child.estimated_cost + 100, child.estimated_cardinality)

\* plan_generator.cpp:249-254, 316-329: the operators put above a scan or join
ApplyOperators(node, query) ==
  generateProjectPlan(
    generateLimitPlan(
      generateSortPlan(
        generateAggregatePlan(generateFilterPlan(node, query.where_conditions),
                              query.group_by),
        query.order_by),
      query.limit),
    query.select_items)

\* plan_generator.cpp:240-246: the scan made when the catalog has no exact entry
ForcedScan(table_name, alias) ==
  LET ts == getTableStatsCI(table_name)
      rows == IF ts = NoStats THEN 100 ELSE ts.row_count
  IN PlanNode("SCAN", table_name, alias, <<>>, <<>>, rows * 100, rows)

\* plan_generator.cpp:281-292
DefaultScan(table_name, alias) ==
  PlanNode("SCAN", table_name, alias, <<>>, <<>>, 700, 7)

\* plan_generator.cpp:277-311: the one join of a multi-table query
NestedJoin(query) ==
  LET left_name == query.from_table.name
      right == query.joins[1].table
      left_scans == generateScanPlans(left_name, query.from_table.alias)
      right_scans == generateScanPlans(right.name, right.alias)
      left_stats == getTableStatsCI(left_name)
      right_stats == getTableStatsCI(right.name)
      left_rows == IF left_stats = NoStats THEN 7 ELSE left_stats.row_count
      right_rows == IF right_stats = NoStats THEN 7 ELSE right_stats.row_count
  IN JoinNode("NESTED",
              IF left_scans = <<>> THEN DefaultScan(left_name, query.from_table.alias)
              ELSE left_scans[1],
              IF right_scans = <<>> THEN DefaultScan(right.name, right.alias)
              ELSE right_scans[1],
              query.joins[1].on_conds,
              (left_rows + right_rows + (left_rows * right_rows) \div 10) * 100,
              Max(1, (left_rows * right_rows) \div 10))

\* plan_generator.cpp:89-94, 102-107: the first scan no other scan is cheaper than
CheapestScan(scans) ==
  scans[CHOOSE i \in 1..Len(scans) :
          /\ \A j \in 1..Len(scans) : scans[j].estimated_cost >= scans[i].estimated_cost
          /\ \A j \in 1..(i - 1) : scans[j].estimated_cost > scans[i].estimated_cost]

\* plan_generator.cpp:97-128: table i is joined to what has been joined so far;
\* a table without scans is passed over
RECURSIVE JoinRemaining(_, _, _, _)
JoinRemaining(tables_, conditions, i, current) ==
  IF i > Len(tables_) THEN current
  ELSE LET right_scans == generateScanPlans(tables_[i], "")
           right == CheapestScan(right_scans)
           join_conds == IF i - 1 <= Len(conditions) THEN conditions[i - 1] ELSE <<>>
           left_card == current.estimated_cardinality
           right_card == right.estimated_cardinality
       IN IF right_scans = <<>> THEN JoinRemaining(tables_, conditions, i + 1, current)
          ELSE JoinRemaining(tables_, conditions, i + 1,
                 JoinNode("inner", current, right, join_conds,
                          current.estimated_cost + right.estimated_cost
                          + estimateJoinCost(left_card, right_card),
                          (left_card * right_card) \div 10))

\* plan_generator.cpp:78-131: <<>> is the nullptr, <<node>> the tree
generateLeftDeepJoin(tables_, conditions) ==
  IF tables_ = <<>> THEN <<>>
  ELSE IF generateScanPlans(tables_[1], "") = <<>> THEN <<>>
  ELSE <<JoinRemaining(tables_, conditions, 2,
                       CheapestScan(generateScanPlans(tables_[1], "")))>>

\* execution_plan.h:196-211 class ExecutionPlan
ExecutionPlan(root) ==
  [root |-> <<root>>, total_cost |-> root.estimated_cost,
   total_cardinality |-> root.estimated_cardinality, original_query |-> ""]

\* plan_generator.cpp:219-350
generatePlans(query) ==
  IF query.joins = <<>>
  THEN LET found == generateScanPlans(query.from_table.name, query.from_table.alias)
           scans == IF found = <<>>
                    THEN <<ForcedScan(query.from_table.name, query.from_table.alias)>>
                    ELSE found
       IN [i \in 1..Len(scans) |-> ExecutionPlan(ApplyOperators(scans[i], query))]
  ELSE <<ExecutionPlan(ApplyOperators(NestedJoin(query), query))>>

\* plan_generator.cpp:352-357 with execution_plan.h:264-266: std::min_element,
\* the first plan no other plan is cheaper than
getBestPlan(plans) ==
  plans[CHOOSE i \in 1..Len(plans) :
          /\ \A j \in 1..Len(plans) : plans[j].total_cost >= plans[i].total_cost
          /\ \A j \in 1..(i - 1) : plans[j].total_cost > plans[i].total_cost]

(***************************************************************************)
(* The interactive loop (cli.cpp main) around Optimizer::optimize, and the  *)
(* direct call of Optimizer::optimize by a program that links the engine.   *)
(***************************************************************************)

VARIABLES
  pc,               \* position in the loop or inside optimize
  line,             \* cli.cpp:141 the line read at the prompt ("" on a direct call)
  sq,               \* cli.cpp:221 the parsed query, the argument q of optimize
  serr,             \* cli.cpp:228-229 outcome of semantic_validate
  flags,            \* optimizer.cpp:205-245 has_comma_joins, has_subqueries,
                    \* original_join_count
  rewritten_query,  \* optimizer.cpp:203
  plans,            \* optimizer.cpp:270
  result,           \* optimizer.cpp:200 OptimizeResult
  executed,         \* plan_executor.cpp:19-20 the SQL text sent to the database
  prev,             \* history: argument and result of the last finished optimize
  direct,           \* a call of a public PlanGenerator method from outside optimize
  step,             \* sqlopt.cpp: position in main's loop or in the join ordering
  tables,           \* sqlopt.cpp:157 q.tables after classify_conditions
  joinPreds,        \* sqlopt.cpp:773
  base,             \* sqlopt.cpp:616
  dp,               \* sqlopt.cpp:620
  mask,             \* sqlopt.cpp:630
  left,             \* sqlopt.cpp:633
  bestPlan          \* sqlopt.cpp:790

\* The state of the engine (src/engine) and of the prototype (src/sqlopt.cpp)
engine ==
  <<pc, line, sq, serr, flags, rewritten_query, plans, result, executed, prev, direct>>
ordering == <<step, tables, joinPreds, base, dp, mask, left, bestPlan>>

vars == <<engine, ordering>>

\* The lines typed at the prompt
Lines ==
  { "SELECT * FROM users WHERE id = 42",
    "SELECT u.name FROM users u, orders o WHERE u.id = o.user_id AND o.status = 'A'",
    "SELECT u.name FROM users u LEFT JOIN zed z ON u.id = z.user_id JOIN orders o ON u.id = o.user_id",
    "SELECT u.name FROM users u RIGHT JOIN orders o ON u.id = o.user_id",
    "SELECT * FROM users u, orders o, products p WHERE u.id = o.user_id AND o.product_id = p.id",
    "SELECT * FROM users u JOIN nosuch n ON u.id = n.id",
    "SELECT * FROM users u JOIN orders o ON id = user_id WHERE id = user_id AND name = 'x'",
    "SELECT * FROM users WHERE name = 'a.b = c.d'",
    "SELECT name FROM users u LEFT JOIN zed z ON name = user_id WHERE name = user_id AND name = 'ann'",
    "SELECT name FROM users GROUP BY name ORDER BY name, id DESC LIMIT 7",
    "SELECT * FROM Party p WHERE p.PartyID = 1",
    "SELECT id FROM users u JOIN orders o ON u.id = o.user_id",
    "SELECT * FROM users u, orders o WHERE 1=1",
    "SELECT name FROM users ORDER BY name DESC LIMIT 0",
    "SELECT DISTINCT name FROM users",
    "SELECT * FROM users WHERE 1=1 AND id = 42",
    "SELECT * FROM Party a JOIN Party b ON a.PartyID = b.PartyID",
    "SELECT * FROM users u JOIN orders u ON u.id = u.user_id",
    "SELECT * FROM users u JOIN products p ON u.id = p.id JOIN orders o ON o.product_id = p.id",
    "SELECT * FROM users WHERE id > 1.5",
    "SELECT * FROM users u WHERE id = x.id",
    "SELECT u.name FROM users u JOIN orders o ON u.id = o.user_id GROUP BY u.name",
    "SELECT u.name FROM users u JOIN orders o ON u.id = o.user_id WHERE 1=1 GROUP BY u.name",
    "explain SELECT name FROM users",
    "DROP TABLE users" }

\* Queries handed to Optimizer::optimize directly, as the structs of ast.h
ApiQueries ==
  { SelectQuery(<<SelectItem("o.id", ""),
                  SelectItem("(SELECT name FROM products p WHERE p.id = o.product_id)",
                             "pname")>>,
                TableRef("orders", "o"), <<>>, <<>>, <<>>, <<>>, <<>>, -1),
    SelectQuery(<<SelectItem("(SELECT PartyName FROM party pt WHERE pt.PartyID = c.PartyID)",
                             "party")>>,
                TableRef("candidate", "c"), <<>>, <<>>, <<>>, <<>>, <<>>, -1),
    SelectQuery(<<SelectItem("COUNT(*)", "n")>>,
                TableRef("users", "u"),
                <<JoinClause("INNER", TableRef("orders", "o"), <<"u.id = o.user_id">>)>>,
                <<"u.name = 'x'">>, <<>>, <<>>, <<>>, -1),
    [SelectQuery(<<SelectItem("name", "")>>,
                 TableRef("users", ""), <<>>, <<>>, <<>>, <<>>, <<>>, -1)
       EXCEPT !.distinct = TRUE],
    SelectQuery(<<SelectItem("u.name", "")>>,
                TableRef("users", "u"),
                <<JoinClause("INNER",
                             [TableRef("orders", "o")
                                EXCEPT !.pushedFilters = <<"o.status = 'A'">>],
                             <<"u.id = o.user_id">>)>>,
                <<>>, <<>>, <<>>, <<>>, -1) }

\* ast.h:31-42 a default-constructed SelectQuery
NoQuery == SelectQuery(<<>>, TableRef("", ""), <<>>, <<>>, <<>>, <<>>, <<>>, -1)

\* execution_plan.h:196-211 a default-constructed ExecutionPlan
NoPlan == [root |-> <<>>, total_cost |-> 0, total_cardinality |-> 0, original_query |-> ""]

\* optimizer.h struct OptimizeResult, default-constructed (optimizer.cpp:200)
NoResult == [rewritten_sql |-> "", log |-> <<>>, plan |-> NoPlan]

NoFlags ==
  [has_comma_joins |-> FALSE, has_subqueries |-> FALSE, original_join_count |-> 0,
   ultimate_subquery_conversion |-> FALSE]

\* cli.cpp:228 before semantic_validate has run
NoSerr == [checked |-> FALSE, ok |-> TRUE, err |-> ""]

NoRun == [called |-> FALSE, query |-> NoQuery, result |-> NoResult]

\* No call of a PlanGenerator method is under way
NoCall == [fn |-> "", tables |-> <<>>, plans |-> <<>>, ret |-> <<>>]

Init ==
  /\ pc = "prompt"
  /\ line = ""
  /\ sq = NoQuery
  /\ serr = NoSerr
  /\ flags = NoFlags
  /\ rewritten_query = NoQuery
  /\ plans = <<>>
  /\ result = NoResult
  /\ executed = ""
  /\ prev = NoRun
  /\ direct = NoCall
  /\ step = "prompt"
  /\ tables = <<>>
  /\ joinPreds = <<>>
  /\ base = <<>>
  /\ dp = <<>>
  /\ mask = 0
  /\ left = 0
  /\ bestPlan = <<>>

\* The locals of one loop iteration as they are when the iteration starts
FreshIteration ==
  /\ serr' = NoSerr
  /\ flags' = NoFlags
  /\ rewritten_query' = NoQuery
  /\ plans' = <<>>
  /\ result' = NoResult
  /\ executed' = ""

\* cli.cpp:201 a leading lower-case "explain" is cut off
StripExplain(l) ==
  IF Len(l) >= 7 /\ SubSeq(l, 1, 7) = "explain" THEN SubSeq(l, 8, Len(l)) ELSE l

\* cli.cpp:197-201
ReadLine ==
  /\ pc = "prompt"
  /\ \E l \in Lines :
       /\ trim(l) # ""
       /\ line' = StripExplain(trim(l))
  /\ pc' = "parse"
  /\ sq' = NoQuery
  /\ FreshIteration
  /\ UNCHANGED prev
  /\ UNCHANGED direct
  /\ UNCHANGED ordering

\* parser.cpp:10-33; no line of Lines opens with INSERT, UPDATE or DELETE,
\* whose parsers are not modelled
parse_query(toks) ==
  IF is_kw(toks[1], "select") THEN parse_select(toks)
  ELSE ParseFail("Expected SELECT, INSERT, UPDATE, or DELETE")

\* cli.cpp:203-218: a syntax error goes back to the prompt
Parsed(r) ==
  IF r.ok THEN sq' = r.q /\ pc' = "validate"
  ELSE sq' = sq /\ pc' = "prompt"

ParseLine ==
  /\ pc = "parse"
  /\ Parsed(parse_query(tokenize(line)))
  /\ UNCHANGED <<line, serr, flags, rewritten_query, plans, result, executed, prev>>
  /\ UNCHANGED direct
  /\ UNCHANGED ordering

\* cli.cpp:227-263: the outcome is printed and the loop goes on to optimize
\* whatever semantic_validate returned
Validated(r) == serr' = [checked |-> TRUE, ok |-> r.ok, err |-> r.err]

Validate ==
  /\ pc = "validate"
  /\ Validated(semantic_validate(sq))
  /\ pc' = "optimize"
  /\ UNCHANGED <<line, sq, flags, rewritten_query, plans, result, executed, prev>>
  /\ UNCHANGED direct
  /\ UNCHANGED ordering

\* A program that links the engine calls Optimizer::optimize (optimizer.cpp:199)
\* with a query it has built itself
OptimizeCall ==
  /\ pc = "prompt"
  /\ line' = ""
  /\ FreshIteration
  /\ \E q \in ApiQueries : sq' = q
  /\ pc' = "optimize"
  /\ UNCHANGED prev
  /\ UNCHANGED direct
  /\ UNCHANGED ordering


\* optimizer.cpp:203-245
OptimizeBegin ==
  /\ pc = "optimize"
  /\ rewritten_query' = sq
  /\ flags' = [has_comma_joins |-> HasCommaJoins(sq),
               has_subqueries |-> HasSubqueries(sq),
               original_join_count |-> Len(sq.joins),
               ultimate_subquery_conversion |-> FALSE]
  /\ pc' = "convertCommaJoins"
  /\ UNCHANGED <<line, sq, serr, plans, result, executed, prev>>
  /\ UNCHANGED direct
  /\ UNCHANGED ordering

\* One call of QueryRewriter::rewrite's sequence (query_rewriter.cpp:7-22)
RewriteStep(at, f(_), next) ==
  /\ pc = at
  /\ rewritten_query' = f(rewritten_query)
  /\ pc' = next
  /\ UNCHANGED <<line, sq, serr, flags, plans, result, executed, prev>>
  /\ UNCHANGED direct
  /\ UNCHANGED ordering

\* query_rewriter.cpp:9
ConvertCommaJoins ==
  RewriteStep("convertCommaJoins", convertCommaJoins, "convertSubqueriesToJoins")

\* query_rewriter.cpp:12
ConvertSubqueriesToJoins ==
  RewriteStep("convertSubqueriesToJoins", convertSubqueriesToJoins, "pushdownPredicates")

\* query_rewriter.cpp:15
PushdownPredicates ==
  RewriteStep("pushdownPredicates", pushdownPredicates, "pushdownProjections")

\* query_rewriter.cpp:18
PushdownProjections ==
  RewriteStep("pushdownProjections", pushdownProjections, "reorderJoins")

\* query_rewriter.cpp:21
ReorderJoins ==
  RewriteStep("reorderJoins", reorderJoins, "selectQueryToSQL")

\* optimizer.cpp:253-267
Built(b) ==
  /\ result' = [result EXCEPT !.rewritten_sql = b.sql]
  /\ flags' = [flags EXCEPT
                 !.ultimate_subquery_conversion = b.ultimate_subquery_conversion]

BuildRewrittenSQL ==
  /\ pc = "selectQueryToSQL"
  /\ Built(BuildSQL(sq, rewritten_query))
  /\ pc' = "generatePlans"
  /\ UNCHANGED <<line, sq, serr, rewritten_query, plans, executed, prev>>
  /\ UNCHANGED direct
  /\ UNCHANGED ordering

\* optimizer.cpp:270
GeneratePlans ==
  /\ pc = "generatePlans"
  /\ plans' = generatePlans(rewritten_query)
  /\ pc' = "getBestPlan"
  /\ UNCHANGED <<line, sq, serr, flags, rewritten_query, result, executed, prev>>
  /\ UNCHANGED direct
  /\ UNCHANGED ordering

\* A numbering that goes on from the log of the run before
FirstStepCarried == 1 + Len(prev.result.log)

\* optimizer.cpp:288 int step = 1
FirstStep == 1

\* optimizer.cpp:291-310 step++ in front of every entry
NumberEntries(entries) ==
  [i \in 1..Len(entries) |-> ToString(FirstStep + i - 1) \o ". " \o entries[i]]

\* optimizer.cpp:315 operator<< of a double: costs are carried in hundredths,
\* and up to 9999.99 the six significant digits of the stream show both decimals
FormatCost(c) ==
  LET whole == c \div 100
      frac == c % 100
  IN ToString(whole)
     \o (IF frac = 0 THEN ""
         ELSE IF frac % 10 = 0 THEN "." \o ToString(frac \div 10)
         ELSE "." \o ToString(frac \div 10) \o ToString(frac % 10))

\* optimizer.cpp:286-318: the lines of result.log
OptimizeLog(q, rq, ultimate, all, best) ==
  NumberEntries(TraceEntries(q, rq, ultimate))
  \o <<"Generated " \o ToString(Len(all)) \o " execution plans",
       "Selected best plan with cost: " \o FormatCost(best.total_cost)>>

\* optimizer.cpp:272-279: no plan was generated
Fallback ==
  result' = [result EXCEPT
    !.log = <<"Generated fallback execution plan for demonstration">>,
    !.plan = [NoPlan EXCEPT !.total_cost = 10000, !.total_cardinality = 10,
                            !.original_query = result.rewritten_sql]]

\* optimizer.cpp:283-318
Selected(best) ==
  result' = [result EXCEPT
    !.plan = [best EXCEPT !.original_query = result.rewritten_sql],
    !.log = OptimizeLog(sq, rewritten_query, flags.ultimate_subquery_conversion,
                        plans, best)]

\* optimizer.cpp:272-320
SelectBestPlan ==
  /\ pc = "getBestPlan"
  /\ IF plans = <<>> THEN Fallback ELSE Selected(getBestPlan(plans))
  /\ pc' = IF line = "" THEN "return" ELSE "execute"
  /\ UNCHANGED <<line, sq, serr, flags, rewritten_query, plans, executed, prev>>
  /\ UNCHANGED direct
  /\ UNCHANGED ordering

\* plan_executor.cpp:55-65
planToSQL(plan) == plan.original_query

\* cli.cpp:302-305: the chosen plan is executed, which ends the iteration
Execute ==
  /\ pc = "execute"
  /\ executed' = planToSQL(result.plan)
  /\ prev' = [called |-> TRUE, query |-> sq, result |-> result]
  /\ pc' = "prompt"
  /\ UNCHANGED <<line, sq, serr, flags, rewritten_query, plans, result>>
  /\ UNCHANGED direct
  /\ UNCHANGED ordering

\* optimizer.cpp:320: the direct call returns its result to the caller
Return ==
  /\ pc = "return"
  /\ prev' = [called |-> TRUE, query |-> sq, result |-> result]
  /\ pc' = "prompt"
  /\ UNCHANGED <<line, sq, serr, flags, rewritten_query, plans, result, executed>>
  /\ UNCHANGED direct
  /\ UNCHANGED ordering

\* The arguments a caller hands to PlanGenerator::generateLeftDeepJoin
LeftDeepJoinCalls ==
  { [tables |-> <<"users", "orders">>, conditions |-> <<(<<"users.id = orders.user_id">>)>>],
    [tables |-> <<"Party", "Party">>, conditions |-> <<>>],
    [tables |-> <<"Party", "Party", "Party", "Party">>, conditions |-> <<>>],
    [tables |-> <<"orders", "nosuch", "zed">>, conditions |-> <<>>],
    [tables |-> <<"nosuch", "users">>, conditions |-> <<>>] }

\* plan_generator.h:55-57: generateLeftDeepJoin is public
GenerateLeftDeepJoinCall ==
  /\ pc = "prompt"
  /\ \E c \in LeftDeepJoinCalls :
       direct' = [fn |-> "generateLeftDeepJoin", tables |-> c.tables, plans |-> <<>>,
                  ret |-> generateLeftDeepJoin(c.tables, c.conditions)]
  /\ pc' = "called"
  /\ UNCHANGED <<line, sq, serr, flags, rewritten_query, plans, result, executed, prev>>
  /\ UNCHANGED ordering

\* The plan lists a caller hands to PlanGenerator::getBestPlan: the plans of
\* generatePlans for a query, and plans over a scan of users with and without a
\* LIMIT 5 above it (plan_generator.cpp:207: a limit adds no cost)
CandidatePlans ==
  LET scan == generateScanPlans("users", "")[1]
      index == generateScanPlans("users", "")[2]
      limited == generateLimitPlan(scan, 5)
  IN { <<ExecutionPlan(scan), ExecutionPlan(limited)>>,
       <<ExecutionPlan(limited), ExecutionPlan(scan)>>,
       <<ExecutionPlan(index), ExecutionPlan(scan), ExecutionPlan(limited)>>,
       <<ExecutionPlan(index), ExecutionPlan(limited), ExecutionPlan(limited)>>,
       <<ExecutionPlan(scan)>> }

\* plan_generator.h:52: getBestPlan is public
GetBestPlanCall ==
  /\ pc = "prompt"
  /\ \E c \in CandidatePlans :
       direct' = [fn |-> "getBestPlan", tables |-> <<>>, plans |-> c,
                  ret |-> <<getBestPlan(c)>>]
  /\ pc' = "called"
  /\ UNCHANGED <<line, sq, serr, flags, rewritten_query, plans, result, executed, prev>>
  /\ UNCHANGED ordering

\* The caller has taken the value returned
DirectReturn ==
  /\ pc = "called"
  /\ direct' = NoCall
  /\ pc' = "prompt"
  /\ UNCHANGED <<line, sq, serr, flags, rewritten_query, plans, result, executed, prev>>
  /\ UNCHANGED ordering

Next ==
  \/ ReadLine
  \/ ParseLine
  \/ Validate
  \/ OptimizeCall
  \/ OptimizeBegin
  \/ ConvertCommaJoins
  \/ ConvertSubqueriesToJoins
  \/ PushdownPredicates
  \/ PushdownProjections
  \/ ReorderJoins
  \/ BuildRewrittenSQL
  \/ GeneratePlans
  \/ SelectBestPlan
  \/ Execute
  \/ Return
  \/ GenerateLeftDeepJoinCall
  \/ GetBestPlanCall
  \/ DirectReturn

Spec == Init /\ [][Next]_vars

(***************************************************************************)
(* The database behind PlanExecutor::executeRawSQL: what a standard SQL     *)
(* backend returns for the statements of the fragment                       *)
(*   SELECT cols FROM t [AS] a {[INNER|LEFT|RIGHT] JOIN t [AS] a ON x = y}  *)
(*   [WHERE x = y {AND x = y}]                                              *)
(* on one small instance of the catalog's tables.  Values are texts.        *)
(***************************************************************************)

SqlNull == "NULL"

\* mysql_connector.cpp executeQuery: the tables the statement is run against
Database ==
  <<[name |-> "users", columns |-> <<"id", "name">>, rows |-> {<<"1", "ann">>}],
    [name |-> "orders", columns |-> <<"id", "user_id", "product_id", "status">>,
     rows |-> {<<"10", "1", "5", "A">>, <<"11", "2", "5", "B">>}],
    [name |-> "products", columns |-> <<"id", "name">>, rows |-> {<<"5", "pen">>}],
    [name |-> "zed", columns |-> <<"id", "user_id">>, rows |-> {<<"10", "1">>}],
    [name |-> "party", columns |-> <<"partyid", "partyname">>, rows |-> {<<"1", "red">>}]>>

NoTable == [name |-> "", columns |-> <<>>, rows |-> {}]

TableData(name) ==
  LET hit == SelectSeq(Database, LAMBDA t : t.name = to_lower(name))
  IN IF hit = <<>> THEN NoTable ELSE hit[1]

\* One row of table t under the alias a: a cell per column
Bind(t, a, row) ==
  [i \in 1..Len(t.columns) |-> [alias |-> to_lower(a), col |-> t.columns[i], v |-> row[i]]]

\* The cells a table adds to a row it has no match for
NullRow(t, a) == Bind(t, a, [i \in 1..Len(t.columns) |-> SqlNull])

NoOperand == [ok |-> FALSE, lit |-> FALSE, alias |-> "", col |-> "", v |-> "", k |-> 0]

\* A column, a qualified column, a number or a string at token k
Operand(toks, k) ==
  IF TypeAt(toks, k, "IDENT") /\ TypeAt(toks, k + 1, "DOT") /\ TypeAt(toks, k + 2, "IDENT")
  THEN [ok |-> TRUE, lit |-> FALSE, alias |-> to_lower(toks[k].text),
        col |-> to_lower(toks[k + 2].text), v |-> "", k |-> k + 3]
  ELSE IF TypeAt(toks, k, "IDENT")
  THEN [ok |-> TRUE, lit |-> FALSE, alias |-> "", col |-> to_lower(toks[k].text),
        v |-> "", k |-> k + 1]
  ELSE IF TypeAt(toks, k, "NUMBER") \/ TypeAt(toks, k, "STRING")
  THEN [ok |-> TRUE, lit |-> TRUE, alias |-> "", col |-> "", v |-> toks[k].text, k |-> k + 1]
  ELSE NoOperand

\* operand = operand and nothing else
Comparison(cond) ==
  LET toks == tokenize(cond)
      l == Operand(toks, 1)
      r == Operand(toks, l.k + 1)
  IN IF l.ok /\ TypeAt(toks, l.k, "OP") /\ toks[l.k].text = "=" /\ r.ok
        /\ TypeAt(toks, r.k, "END")
     THEN [ok |-> TRUE, l |-> l, r |-> r]
     ELSE [ok |-> FALSE, l |-> NoOperand, r |-> NoOperand]

Cells(env, o) ==
  SelectSeq(env, LAMBDA c : c.col = o.col /\ (o.alias = "" \/ c.alias = o.alias))

\* The operand names exactly one column of the row (or is a literal)
Resolves(env, o) == o.ok /\ (o.lit \/ Len(Cells(env, o)) = 1)

ValueOf(env, o) == IF o.lit THEN o.v ELSE Cells(env, o)[1].v

CondResolves(env, cond) ==
  LET c == Comparison(cond) IN c.ok /\ Resolves(env, c.l) /\ Resolves(env, c.r)

\* SQL's =: unknown, hence not true, when a side is NULL
Holds(env, cond) ==
  LET c == Comparison(cond) IN
  ValueOf(env, c.l) # SqlNull /\ ValueOf(env, c.l) = ValueOf(env, c.r)

AllHold(env, conds) == \A i \in 1..Len(conds) : Holds(env, conds[i])

\* One join of the FROM clause applied to the rows built so far
JoinRows(type, lrows, rrows, left_null, right_null, on_conds) ==
  LET inner == {l \o r : <<l, r>> \in {p \in lrows \X rrows : AllHold(p[1] \o p[2], on_conds)}}
  IN inner
     \cup (IF type = "LEFT"
           THEN {l \o right_null : l \in {x \in lrows :
                   \A r \in rrows : ~AllHold(x \o r, on_conds)}}
           ELSE {})
     \cup (IF type = "RIGHT"
           THEN {left_null \o r : r \in {x \in rrows :
                   \A l \in lrows : ~AllHold(l \o x, on_conds)}}
           ELSE {})

SqlError == [ok |-> FALSE, rows |-> {}]

\* The joins from the j-th on; null_row is a row of NULLs over the tables so far,
\* which also is the scope the names of an ON clause are looked up in
RECURSIVE FromRows(_, _, _, _)
FromRows(q, j, null_row, rows) ==
  IF j > Len(q.joins) THEN [ok |-> TRUE, null_row |-> null_row, rows |-> rows]
  ELSE LET join == q.joins[j]
           t == TableData(join.table.name)
           a == EffAlias(join.table)
           scope == null_row \o NullRow(t, a)
       IN IF t = NoTable \/ join.type \notin {"INNER", "LEFT", "RIGHT"}
             \/ \E i \in 1..Len(join.on_conds) : ~CondResolves(scope, join.on_conds[i])
          THEN [ok |-> FALSE, null_row |-> <<>>, rows |-> {}]
          ELSE FromRows(q, j + 1, scope,
                        JoinRows(join.type, rows, {Bind(t, a, r) : r \in t.rows},
                                 null_row, NullRow(t, a), join.on_conds))

\* The select list: * or columns
ItemOperands(q) ==
  [i \in 1..Len(q.select_items) |->
     IF q.select_items[i].expr = "*" THEN NoOperand
     ELSE Operand(tokenize(q.select_items[i].expr), 1)]

Projected(q, env) ==
  LET ops == ItemOperands(q) IN
  Flatten([i \in 1..Len(q.select_items) |->
     IF q.select_items[i].expr = "*" THEN [k \in 1..Len(env) |-> env[k].v]
     ELSE <<ValueOf(env, ops[i])>>])

\* What the backend returns for the query: an error, or the set of its rows
RunQuery(q) ==
  LET t == TableData(q.from_table.name)
      a == EffAlias(q.from_table)
      from == FromRows(q, 1, NullRow(t, a), {Bind(t, a, r) : r \in t.rows})
      filters == q.from_table.pushedFilters \o q.where_conditions
      ops == ItemOperands(q)
  IN IF t = NoTable \/ ~from.ok THEN SqlError
     ELSE IF q.group_by # <<>> \/ q.having_conditions # <<>> \/ q.order_by # <<>>
             \/ q.limit # -1
       THEN SqlError
     ELSE IF \E i \in 1..Len(filters) : ~CondResolves(from.null_row, filters[i])
       THEN SqlError
     ELSE IF \E i \in 1..Len(ops) :
               q.select_items[i].expr # "*"
               /\ ~(Resolves(from.null_row, ops[i]) /\ ~ops[i].lit
                    /\ TypeAt(tokenize(q.select_items[i].expr), ops[i].k, "END"))
       THEN SqlError
     ELSE [ok |-> TRUE,
           rows |-> {Projected(q, env) : env \in {e \in from.rows : AllHold(e, filters)}}]

\* plan_executor.cpp:32-51 executeRawSQL: the statement text is read and run
RunSQL(sql) ==
  LET r == parse_query(tokenize(sql)) IN IF r.ok THEN RunQuery(r.q) ELSE SqlError

(***************************************************************************)
(* The join-order prototype (sqlopt.cpp). Row counts and the costs of the  *)
(* search are whole numbers: the tables of Queries make every quotient     *)
(* the program computes in doubles come out whole or below one.            *)
(***************************************************************************)

\* Most relations in one FROM clause
MaxTables == 4

\* sqlopt.cpp:144-147 struct Condition
Condition(text, referencedTables) ==
  [text |-> text, referencedTables |-> referencedTables]

\* sqlopt.cpp:149-153 struct TableRef, with the filters classify_conditions
\* (sqlopt.cpp:564-599) has pushed to it
FilteredTable(name, alias, pushedFilters) ==
  [name |-> name, alias |-> alias, pushedFilters |-> pushedFilters]

\* sqlopt.cpp:413-417 struct TableStats; distinct_vals as (column, count) pairs
TableStats(name, row_count, distinct_vals) ==
  [name |-> name, row_count |-> row_count, distinct_vals |-> distinct_vals]

\* sqlopt.cpp:734-737
default_stats ==
  <<TableStats("users", 100000, {<<"id", 100000>>, <<"age", 100>>}),
    TableStats("orders", 500000,
               {<<"id", 500000>>, <<"user_id", 100000>>, <<"status", 10>>}),
    TableStats("products", 20000, {<<"id", 20000>>}),
    TableStats("employee", 10000,
               {<<"emp_id", 10000>>, <<"emp_name", 5000>>, <<"manager_id", 1000>>})>>

\* sqlopt.cpp:413-417 TableStats()
NoTableStats == TableStats("", 100000, {})

\* default_stats.count(name) and default_stats[name]
HasStats(name) == \E i \in DOMAIN default_stats : default_stats[i].name = name

StatsOf(name) ==
  IF HasStats(name)
  THEN default_stats[CHOOSE i \in DOMAIN default_stats : default_stats[i].name = name]
  ELSE NoTableStats

\* sqlopt.cpp:428-436 the operator of a condition text
ConditionOp(txt) ==
  IF Find(txt, " = ") THEN "="
  ELSE IF Find(txt, "<>") \/ Find(txt, " != ") THEN "<>"
  ELSE IF Find(txt, "<=") THEN "<="
  ELSE IF Find(txt, ">=") THEN ">="
  ELSE IF Find(txt, " < ") THEN "<"
  ELSE IF Find(txt, " > ") THEN ">"
  ELSE IF Find(txt, " LIKE ") THEN "LIKE"
  ELSE ""

\* sqlopt.cpp:441-444 the column after the first dot, up to the next space
ConditionColumn(txt) ==
  LET p == FindPos(txt, ".")
      rest == SubSeq(txt, p + 1, Len(txt))
  IN IF Find(rest, " ") THEN SubSeq(rest, 1, FindPos(rest, " ") - 1) ELSE rest

\* sqlopt.cpp:452-456 the selectivity that does not look at statistics
PlainSelectivity(op) ==
  IF op = "=" THEN <<1, 20>>
  ELSE IF op = "<>" THEN <<9, 10>>
  ELSE IF op = "LIKE" THEN <<1, 10>>
  ELSE <<1, 5>>

\* sqlopt.cpp:423-457, the selectivity as the fraction <<numerator, denominator>>
estimate_condition_selectivity(c, statsForOneTable) ==
  LET op == ConditionOp(c.text)
      known == {d \in statsForOneTable.distinct_vals :
                  /\ Cardinality(c.referencedTables) = 1
                  /\ Find(c.text, ".")
                  /\ d[1] = ConditionColumn(c.text)
                  /\ d[2] > 1}
  IN IF known # {} /\ op = "=" THEN <<1, (CHOOSE d \in known : TRUE)[2]>>
     ELSE IF known # {} /\ op = "LIKE" THEN <<1, 10>>
     ELSE PlainSelectivity(op)

\* sqlopt.cpp:511-519 sel *= s over the local filters
RECURSIVE ScanSelectivity(_, _, _, _)
ScanSelectivity(filters, ts, i, sel) ==
  IF i > Len(filters) THEN sel
  ELSE LET s == estimate_condition_selectivity(filters[i], ts)
       IN ScanSelectivity(filters, ts, i + 1, <<sel[1] * s[1], sel[2] * s[2]>>)

\* sqlopt.cpp:649 the penalty 1000.0 of a cross join; a plan node's cost is
\* carried as its digits to this base, lowest first, since the penalty of
\* line 651 multiplies it at every level of a cross join
CostBase == 1000

RECURSIVE CostOf(_)
CostOf(n) == IF n = 0 THEN <<>> ELSE <<n % CostBase>> \o CostOf(n \div CostBase)

RECURSIVE CostSum(_, _, _)
CostSum(a, b, carry) ==
  IF a = <<>> /\ b = <<>> THEN CostOf(carry)
  ELSE LET d == (IF a = <<>> THEN 0 ELSE Head(a))
                + (IF b = <<>> THEN 0 ELSE Head(b)) + carry
       IN <<d % CostBase>>
          \o CostSum(IF a = <<>> THEN a ELSE Tail(a),
                     IF b = <<>> THEN b ELSE Tail(b), d \div CostBase)

\* sqlopt.cpp:649-651 cand->cost *= penalty, the penalty being 1.0 or 1000.0
Penalized(cost, hasJoinPred) ==
  IF hasJoinPred \/ cost = <<>> THEN cost ELSE <<0>> \o cost

\* sqlopt.cpp:460-497 struct Plan
Plan(type, table, alias, rows, local_filters, children, join_conditions, cost) ==
  [type |-> type, table |-> table, alias |-> alias, rows |-> rows,
   local_filters |-> local_filters, children |-> children,
   join_conditions |-> join_conditions, cost |-> cost]

\* sqlopt.cpp:500-523
make_scan(t) ==
  LET sel == ScanSelectivity(t.pushedFilters, StatsOf(t.name), 1, <<1, 1>>)
      rows == Max(1, (StatsOf(t.name).row_count * sel[1]) \div sel[2])
  IN Plan("Scan", t.name, IF t.alias = "" THEN t.name ELSE t.alias, rows,
          t.pushedFilters, <<>>, <<>>, CostOf(rows))

\* sqlopt.cpp:526-547: selectivity 0.01 with a join condition, 1.0 without
make_join(l, r, join_conds) ==
  LET est == Max(1, IF join_conds # <<>> THEN (l.rows * r.rows) \div 100
                    ELSE l.rows * r.rows)
  IN Plan("Join", "", "", est, <<>>, <<l, r>>, join_conds,
          CostSum(CostSum(l.cost, r.cost, 0), CostOf(est), 0))

\* 1 << i, mask & (1 << i), a & b, __builtin_popcount
Shl(i) == Pow2(i)

Bit(m, i) == (m \div Pow2(i)) % 2 = 1

RECURSIVE BitAnd(_, _)
BitAnd(a, b) ==
  IF a = 0 \/ b = 0 THEN 0
  ELSE 2 * BitAnd(a \div 2, b \div 2) + (IF a % 2 = 1 /\ b % 2 = 1 THEN 1 ELSE 0)

RECURSIVE popcount(_)
popcount(m) == IF m = 0 THEN 0 ELSE (m % 2) + popcount(m \div 2)

\* sqlopt.cpp:641 key = {min(i,j), max(i,j)}
PairKey(i, j) == <<Min(i, j), Max(i, j)>>

\* sqlopt.cpp:611-614 joinMap[key]: the conditions of the key in joinPreds' order
JoinMap(preds, key) ==
  LET hit == SelectSeq(preds, LAMBDA jp : jp.key = key)
  IN [k \in 1..Len(hit) |-> hit[k].cond]

\* The loops of sqlopt.cpp:639-647 were the inner one to start above i: a
\* predicate whose lower relation is on the right is not seen
ConnectingKeysAscending(n, l, r) ==
  LET pairs == [k \in 1..(n * n) |-> <<(k - 1) \div n, (k - 1) % n>>]
  IN SelectSeq(pairs, LAMBDA p : Bit(l, p[1]) /\ Bit(r, p[2]) /\ p[1] < p[2])

\* sqlopt.cpp:639-647 the keys between l and r in the order of the two loops
ConnectingKeys(n, l, r) ==
  LET pairs == [k \in 1..(n * n) |-> <<(k - 1) \div n, (k - 1) % n>>]
  IN SelectSeq(pairs, LAMBDA p : Bit(l, p[1]) /\ Bit(r, p[2]))

\* sqlopt.cpp:637-647 connectingConds
ConnectingConds(preds, n, l, r) ==
  LET keys == ConnectingKeys(n, l, r)
  IN Concat([k \in 1..Len(keys) |-> JoinMap(preds, PairKey(keys[k][1], keys[k][2]))])

\* sqlopt.cpp:601-605 struct DPEntry; the cost 1e308 of an entry that is not ok
\* is never read
DPEntry(ok, plan, cost) == [ok |-> ok, plan |-> plan, cost |-> cost]

NoEntry == DPEntry(FALSE, <<>>, 0)

\* sqlopt.cpp:619-627
Singletons(n, scans) ==
  [m \in 0..(Shl(n) - 1) |->
     IF popcount(m) = 1
     THEN LET i == CHOOSE i \in 0..(n - 1) : m = Shl(i)
          IN DPEntry(TRUE, scans[i + 1], scans[i + 1].rows)
     ELSE NoEntry]

\* The search of sqlopt.cpp:649-657 were it to skip a partition without a join
\* predicate instead of charging it as a cross join
CandidateJoinedOnly(entries, m, l, r, conds) ==
  LET cand == make_join(entries[l].plan, entries[r].plan, conds)
      candCost == entries[l].cost + entries[r].cost + cand.rows
  IN IF conds # <<>> /\ (~entries[m].ok \/ candCost < entries[m].cost)
     THEN [entries EXCEPT ![m] = DPEntry(TRUE, cand, candCost)]
     ELSE entries

\* sqlopt.cpp:649-657 one candidate of the partition (l, r) of m
Candidate(entries, m, l, r, conds) ==
  LET hasJoinPred == conds # <<>>
      cand == make_join(entries[l].plan, entries[r].plan, conds)
      candCost == entries[l].cost + entries[r].cost
                  + cand.rows * (IF hasJoinPred THEN 1 ELSE 10)
  IN IF ~entries[m].ok \/ candCost < entries[m].cost
     THEN [entries EXCEPT ![m] =
             DPEntry(TRUE, [cand EXCEPT !.cost = Penalized(cand.cost, hasJoinPred)],
                     candCost)]
     ELSE entries

\* sqlopt.cpp:634-658 the body of the inner loop
TryPartition(entries, preds, n, m, l) ==
  IF ~entries[l].ok \/ ~entries[m - l].ok THEN entries
  ELSE Candidate(entries, m, l, m - l, ConnectingConds(preds, n, l, m - l))

\* sqlopt.cpp:661-669 the fallback: left-to-right greedy join
RECURSIVE GreedyJoin(_, _, _, _)
GreedyJoin(scans, preds, i, acc) ==
  IF i >= Len(scans) THEN acc
  ELSE GreedyJoin(scans, preds, i + 1,
                  make_join(acc, scans[i + 1], JoinMap(preds, PairKey(0, i))))

\* The scans a query can be made of: one row (u.id = 7 on users), a hundred
\* rows (u.name LIKE 'a%' AND u.age = 30 on users) and the whole of orders
ScanChoices(alias) ==
  { FilteredTable("users", alias,
                  <<Condition(alias \o ".id = 7", {alias})>>),
    FilteredTable("users", alias,
                  <<Condition(alias \o ".name LIKE a%", {alias}),
                    Condition(alias \o ".age = 30", {alias})>>),
    FilteredTable("orders", alias, <<>>) }

\* Largest cross product of the scans of one query: the search's costs are
\* sums of at most ten times such products
MaxEstimate == 50000000

RECURSIVE EstimateFits(_, _, _)
EstimateFits(t, i, acc) ==
  IF i > Len(t) THEN TRUE
  ELSE IF make_scan(t[i]).rows > MaxEstimate \div acc THEN FALSE
  ELSE EstimateFits(t, i + 1, acc * make_scan(t[i]).rows)

Aliases == <<"a", "b", "c", "d", "e">>

\* The join predicates classify_conditions keys by table index
PredChoices(n) ==
  LET pairs == {p \in (0..(n - 1)) \X (0..(n - 1)) : p[1] < p[2]}
      text(p) == Aliases[p[1] + 1] \o ".age = " \o Aliases[p[2] + 1] \o ".age"
      all == [k \in 1..(n * n) |-> <<(k - 1) \div n, (k - 1) % n>>]
  IN {[k \in 1..Len(SelectSeq(all, LAMBDA p : p \in S)) |->
         LET p == SelectSeq(all, LAMBDA x : x \in S)[k]
         IN [key |-> p,
             cond |-> Condition(text(p), {Aliases[p[1] + 1], Aliases[p[2] + 1]})]]
       : S \in SUBSET pairs}

\* sqlopt.cpp:740-774: a query is read, parsed and classified
ReadQuery ==
  /\ step = "prompt"
  /\ \E n \in 1..MaxTables :
       /\ tables' \in {t \in [1..n -> UNION {ScanChoices(Aliases[i]) : i \in 1..n}] :
                         /\ \A i \in 1..n : t[i].alias = Aliases[i]
                         /\ EstimateFits(t, 1, 1)}
       /\ joinPreds' \in PredChoices(n)
  /\ step' = "scans"
  /\ UNCHANGED <<base, dp, mask, left, bestPlan>>
  /\ UNCHANGED engine

\* sqlopt.cpp:607-627
BuildScans ==
  /\ step = "scans"
  /\ base' = [i \in 1..Len(tables) |-> make_scan(tables[i])]
  /\ dp' = Singletons(Len(tables), base')
  /\ mask' = 1
  /\ step' = "mask"
  /\ UNCHANGED <<tables, joinPreds, left, bestPlan>>
  /\ UNCHANGED engine

\* sqlopt.cpp:630-633 the head of the outer loop
NextMask ==
  /\ step = "mask"
  /\ mask < Shl(Len(tables))
  /\ IF popcount(mask) = 1
     THEN mask' = mask + 1 /\ left' = left /\ step' = "mask"
     ELSE mask' = mask /\ left' = BitAnd(mask - 1, mask) /\ step' = "partition"
  /\ UNCHANGED <<tables, joinPreds, base, dp, bestPlan>>
  /\ UNCHANGED engine

\* sqlopt.cpp:633-658 one pass of the inner loop
Partition ==
  /\ step = "partition"
  /\ dp' = TryPartition(dp, joinPreds, Len(tables), mask, left)
  /\ left' = BitAnd(left - 1, mask)
  /\ IF left' = 0 THEN mask' = mask + 1 /\ step' = "mask"
     ELSE mask' = mask /\ step' = "partition"
  /\ UNCHANGED <<tables, joinPreds, base, bestPlan>>
  /\ UNCHANGED engine

\* sqlopt.cpp:660-669
Chosen(full) ==
  IF dp[full].ok THEN dp[full].plan ELSE GreedyJoin(base, joinPreds, 1, base[1])

ReturnPlan ==
  /\ step = "mask"
  /\ mask = Shl(Len(tables))
  /\ bestPlan' = Chosen(mask - 1)
  /\ step' = "output"
  /\ UNCHANGED <<tables, joinPreds, base, dp, mask, left>>
  /\ UNCHANGED engine

\* sqlopt.cpp:792-829: the plan is printed and the loop starts over
Output ==
  /\ step = "output"
  /\ step' = "prompt"
  /\ tables' = <<>>
  /\ joinPreds' = <<>>
  /\ base' = <<>>
  /\ dp' = <<>>
  /\ mask' = 0
  /\ left' = 0
  /\ bestPlan' = <<>>
  /\ UNCHANGED engine

NextDP ==
  \/ ReadQuery
  \/ BuildScans
  \/ NextMask
  \/ Partition
  \/ ReturnPlan
  \/ Output

SpecDP == Init /\ [][NextDP]_vars

(***************************************************************************)
(* Claims                                                                  *)
(***************************************************************************)

\* Positions of the run
Rewritten == pc = "selectQueryToSQL"
Optimized == pc \in {"execute", "return"}

Count(seq, x) == Cardinality({i \in DOMAIN seq : seq[i] = x})

SameMultiset(a, b) == \A x \in Range(a) \cup Range(b) : Count(a, x) = Count(b, x)

\* pushed_filters over the FROM table and every join table
PushedFilters(q) ==
  q.from_table.pushedFilters
  \o Flatten([j \in 1..Len(q.joins) |-> q.joins[j].table.pushedFilters])

\* C1: for a query the backend accepts, the statement the optimizer emits and
\* the executor runs returns the same set of rows as the query itself.
C1_RewrittenSqlEquivalent ==
  (pc = "prompt" /\ executed # "" /\ RunSQL(line).ok /\ parse_query(tokenize(executed)).ok)
    => RunSQL(executed) = RunSQL(line)

\* The text of a conjunct with its white space taken out
RECURSIVE Squeezed(_)
Squeezed(s) ==
  IF s = "" THEN ""
  ELSE (IF IsSpace(Char(s, 1)) THEN "" ELSE SubSeq(s, 1, 1))
       \o Squeezed(SubSeq(s, 2, Len(s)))

TriviallyTrue(cond) == Squeezed(cond) = "1=1"

\* C2: after rewrite the pushed filters of all tables together with
\* where_conditions are the original where_conditions as a multiset, but for
\* trivially true conjuncts (1=1) that may have been folded away, and no
\* conjunct is both pushed and left in where_conditions.
C2_AllConjunctsPreserved ==
  Rewritten =>
    LET after == PushedFilters(rewritten_query) \o rewritten_query.where_conditions
        orig == sq.where_conditions
    IN /\ \A c \in Range(after) \cup Range(orig) :
            IF TriviallyTrue(c) THEN Count(after, c) <= Count(orig, c)
            ELSE Count(after, c) = Count(orig, c)
       /\ Range(PushedFilters(rewritten_query))
            \cap Range(rewritten_query.where_conditions) = {}

\* C3: rewriting the rewritten query again changes nothing, in the query and in
\* the SQL emitted for it.
C3_RewriteIdempotent ==
  Rewritten =>
    /\ rewrite(rewritten_query) = rewritten_query
    /\ selectQueryToSQL(rewrite(rewritten_query)) = selectQueryToSQL(rewritten_query)

\* The orders the relations 0..n-1 can be joined in
JoinOrders(n) ==
  {o \in [1..n -> 0..(n - 1)] : \A i, j \in 1..n : i # j => o[i] # o[j]}

\* The cost of joining left-deep in the given order, every join charged as the
\* search charges a candidate (sqlopt.cpp:649-652): the cost of the two sides
\* plus the estimated rows, times ten without a join predicate
RECURSIVE LeftDeepCost(_, _, _, _, _)
LeftDeepCost(order, k, joined, rows, cost) ==
  IF k > Len(order) THEN cost
  ELSE LET t == order[k]
           hasJoinPred == \E i \in joined, jp \in Range(joinPreds) :
                            jp.key = PairKey(i, t)
           est == Max(1, IF hasJoinPred THEN (rows * base[t + 1].rows) \div 100
                         ELSE rows * base[t + 1].rows)
       IN LeftDeepCost(order, k + 1, joined \cup {t}, est,
                       cost + base[t + 1].rows
                       + est * (IF hasJoinPred THEN 1 ELSE 10))

\* C4: the cost the search stores for the full set of relations is at most the
\* cost of every left-deep join order of the same relations, charged by the
\* same formula.
C4_SearchBeatsLeftDeepOrders ==
  step = "output" =>
    \A order \in JoinOrders(Len(tables)) :
      dp[Shl(Len(tables)) - 1].cost
        <= LeftDeepCost(order, 2, {order[1]}, base[order[1] + 1].rows,
                        base[order[1] + 1].rows)

C6_FatalErrorAborts ==
  (serr.checked /\ ~serr.ok) =>
    /\ pc \in {"optimize", "prompt"}
    /\ rewritten_query = NoQuery
    /\ plans = <<>>
    /\ result = NoResult
    /\ executed = ""

\* The leaves of a plan tree, left to right
RECURSIVE Leaves(_)
Leaves(n) ==
  IF n.children = <<>> THEN <<n>>
  ELSE Concat([i \in 1..Len(n.children) |-> Leaves(n.children[i])])

\* from_table and every join table, as (table, alias)
Relations(q) ==
  <<(<<q.from_table.name, q.from_table.alias>>)>>
  \o [j \in 1..Len(q.joins) |-> <<q.joins[j].table.name, q.joins[j].table.alias>>]

\* C7: the chosen plan of a query over two or more relations scans each of its
\* relations exactly once.
C7_OneScanPerRelation ==
  (Optimized /\ Len(rewritten_query.joins) >= 1) =>
    LET leaves == Leaves(result.plan.root[1])
    IN SameMultiset([i \in 1..Len(leaves) |-> <<leaves[i].table, leaves[i].alias>>],
                    Relations(rewritten_query))

\* C8: a join that is not INNER is after rewrite where it was before, with
\* the same tables before it in the same order.
C8_OuterJoinsKeepPosition ==
  Rewritten =>
    \A j \in 1..Len(sq.joins) :
      sq.joins[j].type # "INNER" =>
        /\ j <= Len(rewritten_query.joins)
        /\ \A k \in 1..j :
             /\ rewritten_query.joins[k].type = sq.joins[k].type
             /\ rewritten_query.joins[k].table = sq.joins[k].table

\* The conjunct names the alias: "A." or "A " occurs in it
References(cond, alias) == Find(cond, alias \o ".") \/ Find(cond, alias \o " ")

\* The conjunct belongs to sentinel join j: it names the join's alias and the
\* alias of the FROM table or of an earlier join
BelongsTo(q, j, cond) ==
  /\ IsSentinel(q.joins[j])
  /\ References(cond, EffAlias(q.joins[j].table))
  /\ \/ References(cond, EffAlias(q.from_table))
     \/ \E k \in 1..(j - 1) : References(cond, EffAlias(q.joins[k].table))

\* C9: convertCommaJoins moves a WHERE conjunct to the ON conditions of a
\* sentinel join exactly when the conjunct names that join's alias and an
\* earlier alias; every other conjunct stays in where_conditions.
C9_CommaJoinCanonicalization ==
  [][pc = "convertCommaJoins" =>
       \A i \in 1..Len(rewritten_query.where_conditions) :
         LET cond == rewritten_query.where_conditions[i]
             Moved(j) == /\ cond \in Range(rewritten_query'.joins[j].on_conds)
                         /\ cond \notin Range(rewritten_query'.where_conditions)
         IN /\ Len(rewritten_query'.joins) = Len(rewritten_query.joins)
            /\ \A j \in 1..Len(rewritten_query.joins) :
                 IsSentinel(rewritten_query.joins[j]) =>
                   (Moved(j) <=> BelongsTo(rewritten_query, j, cond))
            /\ (\A j \in 1..Len(rewritten_query.joins) :
                  ~BelongsTo(rewritten_query, j, cond))
                 => cond \in Range(rewritten_query'.where_conditions)]_vars

\* The select expression is a scalar subquery
\* (SELECT col FROM tbl alias WHERE alias.k = outer_alias.k2)
ScalarSubquery(expr) ==
  LET m == MatchFrom(expr, 1, generic_pattern, 1, <<>>)
  IN IF m.ok /\ m.stop = Len(expr) + 1 /\ m.caps[3] = m.caps[4]
     THEN [ok |-> TRUE, col |-> m.caps[1], tbl |-> m.caps[2], alias |-> m.caps[3],
           k |-> m.caps[5], outer_alias |-> m.caps[6], k2 |-> m.caps[7]]
     ELSE [ok |-> FALSE, col |-> "", tbl |-> "", alias |-> "", k |-> "",
           outer_alias |-> "", k2 |-> ""]

\* C10: convertSubqueriesToJoins turns every select item that is a scalar
\* subquery (SELECT col FROM tbl alias WHERE alias.k = outer_alias.k2) into
\* alias.col under the item's output alias and adds the join
\* LEFT JOIN tbl alias ON outer_alias.k2 = alias.k; other items stay as they are.
C10_SubqueryDecorrelation ==
  [][pc = "convertSubqueriesToJoins" =>
       /\ Len(rewritten_query'.select_items) = Len(rewritten_query.select_items)
       /\ \A i \in 1..Len(rewritten_query.select_items) :
            LET item == rewritten_query.select_items[i]
                m == ScalarSubquery(item.expr)
            IN IF m.ok
               THEN /\ rewritten_query'.select_items[i]
                         = SelectItem(m.alias \o "." \o m.col, item.alias)
                    /\ JoinClause("LEFT", TableRef(m.tbl, m.alias),
                                  <<m.outer_alias \o "." \o m.k2 \o " = "
                                    \o m.alias \o "." \o m.k>>)
                         \in Range(rewritten_query'.joins)
               ELSE rewritten_query'.select_items[i] = item]_vars

\* The aliases of the relations of a query
QueryAliases(q) ==
  {EffAlias(q.from_table)} \cup {EffAlias(q.joins[j].table) : j \in 1..Len(q.joins)}

\* The aliases of the query a conjunct names
ReferencedAliases(q, cond) == {a \in QueryAliases(q) : References(cond, a)}

\* The pushed filters of the relations with the alias
PushedTo(q, a) ==
  (IF EffAlias(q.from_table) = a THEN Range(q.from_table.pushedFilters) ELSE {})
  \cup UNION {IF EffAlias(q.joins[j].table) = a
              THEN Range(q.joins[j].table.pushedFilters) ELSE {}
              : j \in 1..Len(q.joins)}

\* C11: after rewrite a WHERE conjunct that names exactly one alias is in the
\* pushed filters of the table with that alias and not in where_conditions, a
\* conjunct that names two or more aliases and is no ON condition is in
\* where_conditions, and no table's pushed filters name another alias.
C11_PushdownClassification ==
  Rewritten =>
    LET q == rewritten_query IN
    /\ \A c \in Range(sq.where_conditions) :
         LET refs == ReferencedAliases(q, c) IN
         /\ Cardinality(refs) = 1 =>
              /\ \A a \in refs : c \in PushedTo(q, a)
              /\ c \notin Range(q.where_conditions)
         /\ (Cardinality(refs) >= 2 /\ c \notin AllOnConds(q.joins)) =>
              c \in Range(q.where_conditions)
    /\ \A a \in QueryAliases(q) :
         \A c \in PushedTo(q, a) : ReferencedAliases(q, c) \subseteq {a}

\* The text of the WHERE clause of a statement, "" when it has none
WhereClause(sql) ==
  LET w == FindPos(sql, " WHERE ")
      rest == SubSeq(sql, w + 7, Len(sql))
      ends == {FindPos(rest, k) :
                 k \in {" GROUP BY ", " HAVING ", " ORDER BY ", " LIMIT "}} \ {0}
      stop == IF ends = {} THEN Len(rest) + 1
              ELSE CHOOSE e \in ends : \A f \in ends : e <= f
  IN IF w = 0 THEN "" ELSE SubSeq(rest, 1, stop - 1)

\* The conjuncts of an AND-joined text
RECURSIVE Conjuncts(_)
Conjuncts(text) ==
  IF text = "" THEN <<>>
  ELSE IF ~Find(text, " AND ") THEN <<text>>
  ELSE <<SubSeq(text, 1, FindPos(text, " AND ") - 1)>>
       \o Conjuncts(SubSeq(text, FindPos(text, " AND ") + 5, Len(text)))

\* C12: after rewrite no conjunct whose text without white space is 1=1 is
\* left in where_conditions or in a table's pushed filters, and none is in the
\* WHERE clause of the SQL emitted for the rewritten query.
C12_ConstantFolding ==
  Rewritten =>
    /\ \A c \in Range(PushedFilters(rewritten_query))
                  \cup Range(rewritten_query.where_conditions) : ~TriviallyTrue(c)
    /\ \A c \in Range(Conjuncts(WhereClause(selectQueryToSQL(rewritten_query)))) :
         ~TriviallyTrue(c)

\* The token the serialization is to emit for a join type
JoinTypeToken(jt) ==
  CASE jt = "INNER" -> "INNER"
    [] jt = "LEFT" -> "LEFT"
    [] jt = "RIGHT" -> "RIGHT"
    [] jt = "FULL" -> "FULL"
    [] jt = "NATURAL" -> "NATURAL"
    [] jt = "LEFT_ANTI" -> "LEFT ANTI"
    [] jt = "RIGHT_ANTI" -> "RIGHT ANTI"
    [] jt = "FULL_OUTER_ANTI" -> "FULL OUTER ANTI"

\* s opens with the text p
StartsWith(s, p) == Len(s) >= Len(p) /\ SubSeq(s, 1, Len(p)) = p

\* C13: every join of the rewritten query is emitted with the token of its own
\* join type in front of JOIN, and no two join types share a token.
C13_JoinTypeTokens ==
  Rewritten =>
    /\ \A j \in 1..Len(rewritten_query.joins) :
         StartsWith(JoinSQL(rewritten_query.joins[j]),
                    " " \o JoinTypeToken(rewritten_query.joins[j].type) \o " JOIN ")
    /\ \A a, b \in JoinTypes :
         a # b => join_type_to_string(a) # join_type_to_string(b)

\* C14: the WHERE clause emitted for the rewritten query holds the pushed
\* filters of every table and the where_conditions, each once, and there is
\* no WHERE clause only when there is none of them.
C14_WhereClauseHoldsAllFilters ==
  Rewritten =>
    LET q == rewritten_query
        all == PushedFilters(q) \o q.where_conditions
    IN /\ SameMultiset(Conjuncts(WhereClause(selectQueryToSQL(q))), all)
       /\ (all = <<>>) <=> ~Find(selectQueryToSQL(q), " WHERE ")

\* C15: the SQL emitted for the rewritten query has DISTINCT after SELECT
\* exactly when the query's distinct flag is set.
C15_DistinctEmitted ==
  Rewritten =>
    (StartsWith(selectQueryToSQL(rewritten_query), "SELECT DISTINCT ")
       <=> rewritten_query.distinct)

\* The plans of generatePlans are there
Planned == pc = "getBestPlan"

\* The nodes of a plan tree
RECURSIVE Nodes(_)
Nodes(n) == {n} \cup UNION {Nodes(n.children[i]) : i \in DOMAIN n.children}

\* The plan trees built so far: the roots of the plans of generatePlans and
\* the tree returned by generateLeftDeepJoin
PlanTrees ==
  {plans[i].root[1] : i \in 1..Len(plans)}
  \cup (IF direct.fn = "generateLeftDeepJoin" THEN Range(direct.ret) ELSE {})

\* C16: every Join node of every plan tree the plan generator has built has an
\* estimated cardinality of at least 1.
C16_JoinCardinalityPositive ==
  \A t \in PlanTrees :
    \A n \in Nodes(t) : n.type = "JOIN" => n.estimated_cardinality >= 1

\* The sum of the estimated costs of a node's children
RECURSIVE ChildCost(_, _)
ChildCost(n, i) ==
  IF i > Len(n.children) THEN 0
  ELSE n.children[i].estimated_cost + ChildCost(n, i + 1)

\* C17: in every plan of generatePlans the estimated cost of a node is at
\* least the sum of the estimated costs of its children.
C17_CostCoversChildren ==
  Planned =>
    \A i \in 1..Len(plans) :
      \A n \in Nodes(plans[i].root[1]) : n.estimated_cost >= ChildCost(n, 1)

\* Plan a is to be chosen before plan b at a later place of the list
Preferred(a, b) ==
  \/ a.total_cost < b.total_cost
  \/ a.total_cost = b.total_cost /\ a.total_cardinality <= b.total_cardinality

\* The candidate best-plan selection is to return: minimum cost, then the
\* smaller cardinality, then the one inserted first
BestCandidate(candidates) ==
  candidates[CHOOSE i \in 1..Len(candidates) :
               /\ \A j \in 1..Len(candidates) : Preferred(candidates[i], candidates[j])
               /\ \A j \in 1..(i - 1) : ~Preferred(candidates[j], candidates[i])]

\* C18: getBestPlan returns the candidate of minimum cost, among those of
\* equal cost the one of smaller cardinality, among those equal in both the
\* one inserted first.
C18_BestPlanSelection ==
  /\ direct.fn = "getBestPlan" => direct.ret[1] = BestCandidate(direct.plans)
  /\ (Optimized /\ plans # <<>>) =>
       [result.plan EXCEPT !.original_query = ""] = BestCandidate(plans)

\* The plan tree has a node of the type
HasNode(t, type) == \E n \in Nodes(t) : n.type = type

\* The select expression calls an aggregate function
IsAggregate(expr) ==
  \E f \in {"count(", "sum(", "avg(", "min(", "max("} : Find(to_lower(expr), f)

\* The query groups or aggregates
Aggregates(q) ==
  \/ q.group_by # <<>>
  \/ \E i \in 1..Len(q.select_items) : IsAggregate(q.select_items[i].expr)

\* C19: a plan of generatePlans has an Aggregate node exactly when the query
\* has a GROUP BY or an aggregate select item.
C19_AggregateOnlyWhenAsked ==
  Planned =>
    \A i \in 1..Len(plans) :
      HasNode(plans[i].root[1], "AGGREGATE") <=> Aggregates(rewritten_query)

\* C20: a plan of generatePlans has a Limit node exactly when the query has a
\* limit (limit >= 0), and the count of the node is the query's limit.
C20_LimitOnlyWhenAsked ==
  Planned =>
    \A i \in 1..Len(plans) :
      /\ HasNode(plans[i].root[1], "LIMIT") <=> rewritten_query.limit >= 0
      /\ \A n \in Nodes(plans[i].root[1]) :
           n.type = "LIMIT" => n.args = <<ToString(rewritten_query.limit)>>

\* The relations the join predicates link to the relations of the set
RECURSIVE Linked(_, _)
Linked(set, keys) ==
  LET more == set \cup {k[2] : k \in {k \in keys : k[1] \in set}}
                  \cup {k[1] : k \in {k \in keys : k[2] \in set}}
  IN IF more = set THEN set ELSE Linked(more, keys)

\* The graph of the join predicates over the relations is connected
PredicatesConnected ==
  Linked({0}, {joinPreds[k].key : k \in DOMAIN joinPreds}) = 0..(Len(tables) - 1)

\* C21: when the graph of the join predicates over the relations is connected,
\* no Join node of the join tree the search returns is without join conditions.
C21_CrossJoinOnlyWhenUnavoidable ==
  (step = "output" /\ PredicatesConnected) =>
    \A n \in Nodes(bestPlan) : n.type = "Join" => n.join_conditions # <<>>

\* The aliases of the scans under a node of the join tree
ScannedAliases(n) == {x.alias : x \in {x \in Nodes(n) : x.type = "Scan"}}

\* The two subtrees of the Join node separate the relations of the key
Separates(n, key) ==
  /\ n.type = "Join"
  /\ LET x == tables[key[1] + 1].alias
         y == tables[key[2] + 1].alias
         l == ScannedAliases(n.children[1])
         r == ScannedAliases(n.children[2])
     IN (x \in l /\ y \in r) \/ (y \in l /\ x \in r)

\* C29: in the join tree the search returns every join predicate of joinPreds
\* is in the join conditions of exactly one Join node, once, and that node is
\* the one whose two subtrees separate the two relations of the predicate.
C29_JoinPredicateAtOneNode ==
  step = "output" =>
    \A k \in DOMAIN joinPreds :
      /\ \E n \in Nodes(bestPlan) : Separates(n, joinPreds[k].key)
      /\ \A n \in Nodes(bestPlan) :
           Count(n.join_conditions, joinPreds[k].cond)
             = IF Separates(n, joinPreds[k].key) THEN 1 ELSE 0

\* A tree over four relations has come back with three or more predicates, two
\* of them at one node below the root
C29_Witness ==
  /\ step = "output"
  /\ Len(tables) = 4
  /\ Len(joinPreds) >= 3
  /\ \E n \in Nodes(bestPlan) : n # bestPlan /\ Len(n.join_conditions) >= 2

\* C30: while the search runs every non-empty subset below the current mask
\* has an entry with a plan, the two halves of every partition it tries have
\* one, and when it ends the entry of all relations has one and is what is
\* returned: the greedy fallback is not taken.
C30_EveryCellPopulated ==
  /\ step \in {"mask", "partition", "output"} =>
       \A m \in 1..(mask - 1) : dp[m].ok /\ dp[m].plan # <<>>
  /\ step = "partition" => dp[left].ok /\ dp[mask - left].ok
  /\ step = "output" =>
       /\ mask = Shl(Len(tables))
       /\ bestPlan = dp[mask - 1].plan

\* The search has ended for three or more relations without a join predicate
C30_Witness ==
  /\ step = "output"
  /\ Len(tables) >= 3
  /\ joinPreds = <<>>
  /\ dp[Shl(Len(tables)) - 1].ok

\* statistics_manager.h:14 the selectivity of a column the catalog has no
\* distinct count for, as the fraction <<numerator, denominator>>
DefaultSelectivity == <<1, 10>>

\* statistics_manager.cpp:177-206; the catalog's columns have no histogram
estimateSelectivity(table_name, column, op) ==
  LET ts == getTableStats(table_name)
  IN IF ts = NoStats THEN <<1, 10>>
     ELSE IF column \notin ts.columns THEN <<1, 10>>
     ELSE IF op = "=" THEN DefaultSelectivity
     ELSE IF op \in {">", "<", ">=", "<="} THEN <<3, 10>>
     ELSE <<1, 10>>

\* The comparison of a pushed filter
FilterOp(cond) ==
  IF Find(cond, " LIKE ") THEN "LIKE"
  ELSE IF Find(cond, ">=") THEN ">="
  ELSE IF Find(cond, "<=") THEN "<="
  ELSE IF Find(cond, "<>") \/ Find(cond, "!=") THEN "<>"
  ELSE IF Find(cond, "=") THEN "="
  ELSE IF Find(cond, ">") THEN ">"
  ELSE IF Find(cond, "<") THEN "<"
  ELSE ""

\* The column a pushed filter opens with, without its qualifier
FilterColumn(cond) ==
  LET text == Squeezed(cond)
      stops == {FindPos(text, o) : o \in {"=", "<", ">", "!", "LIKE"}} \ {0}
      stop == IF stops = {} THEN Len(text) + 1
              ELSE CHOOSE e \in stops : \A f \in stops : e <= f
      lhs == SubSeq(text, 1, stop - 1)
  IN IF Find(lhs, ".") THEN SubSeq(lhs, FindPos(lhs, ".") + 1, Len(lhs)) ELSE lhs

\* The product of the estimated selectivities of the filters from i on
RECURSIVE FilterSelectivity(_, _, _)
FilterSelectivity(table_name, filters, i) ==
  IF i > Len(filters) THEN <<1, 1>>
  ELSE LET s == estimateSelectivity(table_name, FilterColumn(filters[i]),
                                    FilterOp(filters[i]))
           rest == FilterSelectivity(table_name, filters, i + 1)
       IN <<s[1] * rest[1], s[2] * rest[2]>>

\* The relations of the query a scan with the table and alias reads
ScannedRelations(q, n) ==
  {t \in {q.from_table} \cup {q.joins[j].table : j \in 1..Len(q.joins)} :
     t.name = n.table /\ t.alias = n.alias}

\* C22: the estimated cardinality of every Scan node of every plan of
\* generatePlans is the row count of its table times the product of the
\* estimated selectivities of the table's pushed filters, the row count itself
\* when the table has none.
C22_ScanCardinality ==
  Planned =>
    \A i \in 1..Len(plans) :
      \A n \in Nodes(plans[i].root[1]) :
        n.type = "SCAN" =>
          \A t \in ScannedRelations(rewritten_query, n) :
            LET sel == FilterSelectivity(t.name, t.pushedFilters, 1)
            IN n.estimated_cardinality * sel[2]
                 = getTableStats(t.name).row_count * sel[1]

\* Query q is query p with one more WHERE conjunct, and the conjunct is
\* redundant: trivially true, or the text of another conjunct or ON condition
AddsRedundantConjunct(q, p) ==
  \E k \in DOMAIN q.where_conditions :
    LET c == q.where_conditions[k]
        others == [i \in 1..(Len(q.where_conditions) - 1) |->
                     q.where_conditions[IF i < k THEN i ELSE i + 1]]
    IN /\ p = [q EXCEPT !.where_conditions = others]
       /\ \/ TriviallyTrue(c)
          \/ \E d \in Range(others) \cup Range(AllOnConds(q.joins)) :
               Squeezed(d) = Squeezed(c)

\* C23: the plan selected for a query with one more redundant WHERE conjunct
\* than the query optimized before it has an estimated cardinality that is
\* not below that of the plan selected for the query before it.
C23_CardinalityMonotone ==
  (Optimized /\ prev.called /\ AddsRedundantConjunct(sq, prev.query)
     /\ result.plan.root # <<>> /\ prev.result.plan.root # <<>>) =>
    result.plan.total_cardinality >= prev.result.plan.total_cardinality

\* semantic_validate has returned for the query of the line
SemanticallyChecked == pc = "optimize" /\ serr.checked

\* The effective aliases of the relations of a query, lower-cased, in order
EffectiveAliases(q) ==
  <<to_lower(EffAlias(q.from_table))>>
  \o [j \in 1..Len(q.joins) |-> to_lower(EffAlias(q.joins[j].table))]

\* C24: semantic validation fails for every query in which two relations
\* (from_table or join tables) have the same effective alias, compared without
\* regard to case.
C24_DuplicateAliasRejected ==
  (SemanticallyChecked /\ \E i, j \in DOMAIN EffectiveAliases(sq) :
                   i < j /\ EffectiveAliases(sq)[i] = EffectiveAliases(sq)[j]) =>
    ~serr.ok

\* Index of the nearest character at or before i, at or after i, that is no
\* space
RECURSIVE BackOverSpaces(_, _)
BackOverSpaces(s, i) ==
  IF i >= 1 /\ IsSpace(Char(s, i)) THEN BackOverSpaces(s, i - 1) ELSE i

RECURSIVE OverSpaces(_, _)
OverSpaces(s, i) ==
  IF i <= Len(s) /\ IsSpace(Char(s, i)) THEN OverSpaces(s, i + 1) ELSE i

\* The qualifiers X of the qualified column references X.col of a text: a dot
\* outside a string literal between two names, neither opening with a digit
QualifiedAliases(s) ==
  LET Quotes(p) == Cardinality({i \in 1..(p - 1) : Char(s, i) = "'"})
      last(p) == BackOverSpaces(s, p - 1)
      first(p) == WordStart(s, last(p))
      col(p) == OverSpaces(s, p + 1)
      dots == {p \in 1..Len(s) :
                 /\ Char(s, p) = "."
                 /\ Quotes(p) % 2 = 0
                 /\ first(p) <= last(p)
                 /\ ~IsDigit(Char(s, first(p)))
                 /\ col(p) <= Len(s)
                 /\ IsWord(Char(s, col(p)))
                 /\ ~IsDigit(Char(s, col(p)))}
  IN {SubSeq(s, first(p), last(p)) : p \in dots}

\* The qualifiers in the select items, WHERE and HAVING conditions of a query
\* that are the alias of none of its relations
UnknownAliases(q) ==
  LET texts == {q.select_items[i].expr : i \in DOMAIN q.select_items}
               \cup Range(q.where_conditions) \cup Range(q.having_conditions)
  IN {X \in UNION {QualifiedAliases(t) : t \in texts} :
        to_lower(X) \notin Range(EffectiveAliases(q))}

\* C25: semantic validation fails with Unknown table/alias 'X' when a select
\* item, WHERE condition or HAVING condition has a qualified column reference
\* X.col whose X is the alias of no relation of the query, and it reports
\* that error for no other X.
C25_UnknownAliasFatal ==
  SemanticallyChecked =>
    /\ UnknownAliases(sq) # {} =>
         \E X \in UnknownAliases(sq) :
           ~serr.ok /\ serr.err = "Unknown table/alias '" \o X \o "'"
    /\ (~serr.ok /\ StartsWith(serr.err, "Unknown table/alias '")) =>
         \E X \in UnknownAliases(sq) :
           serr.err = "Unknown table/alias '" \o X \o "'"

\* The trace of the finished optimize has an entry of the transform
HasEntry(tag) ==
  \E i \in DOMAIN result.log : Find(result.log[i], "[" \o tag \o "]")

\* The query after each call of QueryRewriter::rewrite, from the query
\* optimize was given
AfterCommaJoins == convertCommaJoins(sq)
AfterSubqueries == convertSubqueriesToJoins(AfterCommaJoins)
AfterPredicates == pushdownPredicates(AfterSubqueries)
AfterProjections == pushdownProjections(AfterPredicates)
AfterReorder == reorderJoins(AfterProjections)

\* C26: the trace of optimize has the entry of comma-join conversion, of
\* subquery-to-join conversion, of predicate pushdown and of join reordering
\* exactly when that transform changed the query.
C26_EntryIffChanged ==
  (Optimized /\ result.plan.root # <<>>) =>
    /\ HasEntry("comma_join_conversion") <=> AfterCommaJoins # sq
    /\ HasEntry("subquery_to_join_conversion")
         <=> (AfterSubqueries # AfterCommaJoins \/ flags.ultimate_subquery_conversion)
    /\ HasEntry("predicate_pushdown") <=> AfterPredicates # AfterSubqueries
    /\ HasEntry("join_reordering") <=> AfterReorder # AfterProjections

\* The place of a trace entry in the declared order of the transforms, 0 for
\* a line of the trace that is no entry of a transform
DeclaredOrder ==
  <<"comma_join_conversion", "subquery_to_join_conversion", "predicate_pushdown",
    "projection_pushdown", "constant_folding", "join_reordering">>

EntryRank(entry) ==
  LET at == {k \in DOMAIN DeclaredOrder : Find(entry, "[" \o DeclaredOrder[k] \o "]")}
  IN IF at = {} THEN 0 ELSE CHOOSE k \in at : TRUE

\* C27: the entries of the transforms are in the trace in the declared order
\* of the transforms: comma-join conversion, subquery conversion, predicate
\* pushdown, projection pushdown, constant folding, join reordering.
C27_TraceInDeclaredOrder ==
  Optimized =>
    \A i, j \in DOMAIN result.log :
      (i < j /\ EntryRank(result.log[i]) > 0 /\ EntryRank(result.log[j]) > 0) =>
        EntryRank(result.log[i]) < EntryRank(result.log[j])

\* C28: after rewrite every alias of the query that an ON condition of the
\* join at position i refers to is the alias of the FROM table, of that join
\* or of a join at a position before i.
C28_JoinsAfterWhatTheyReferTo ==
  Rewritten =>
    LET q == rewritten_query IN
    \A i \in 1..Len(q.joins) :
      \A c \in Range(q.joins[i].on_conds) :
        \A X \in QualifiedAliases(c) :
          to_lower(X) \in Range(EffectiveAliases(q)) =>
            to_lower(X) \in {EffectiveAliases(q)[k] : k \in 1..(i + 1)}

====
